---- MODULE Spec2Model ----
(***************************************************************************)
(* A model of the tiled-JPEG backend of openslide-ops-jpeg.c: the pyramid  *)
(* builder (create_width_to_layer_map, generate_layers_into_map and the    *)
(* publication loop of _openslide_add_jpeg_ops), the region router         *)
(* (read_region), the one-JPEG reader (read_from_one_jpeg) and             *)
(* get_dimensions.  The JPEG decoder itself is a black box: a decode of a  *)
(* tile window yields, for every output pixel, the identity of the source  *)
(* pixel block it was produced from.                                       *)
(***************************************************************************)
EXTENDS Integers, Sequences, FiniteSets, TLC

VARIABLES
  fragments,           \* the (z, x, y) of every input fragment, in input order
  all_jpegs,           \* struct one_jpeg of every fragment, aligned with fragments
  pc,                  \* "create_map" | "publish" | "ready" | "aborted"
  i,                   \* loop index of create_width_to_layer_map
  prev,                \* prev_z, prev_x, prev_y
  l_pw, l_ph,          \* accumulated pixel size of the current layer
  img00_w, img00_h,    \* size of the current layer's image (0,0)
  layer0_w,            \* width of layer z = 0
  layer_jpegs_tmp,     \* jpegs collected for the current layer (input order)
  width_to_layer_map,  \* hash table: published width -> struct layer
  freed,               \* the struct layers layer_free has released, in order
  layers,              \* data->layers, the published array
  layer_count,         \* osr->layer_count
  call,                \* the backend operation that last ran, with its arguments
  dest,                \* the caller's buffer of the last read_region
  jcalls,              \* the read_from_one_jpeg calls of the last read_region
  fault,               \* the last operation read or wrote outside an object
  dims,                \* the (w, h) stored by the last get_dimensions
  files,               \* the JPEG file behind every fragment's FILE handle
  fpos,                \* the position of the FILE handle under decode
  src_mgr,             \* struct my_src_mgr of every decode on that handle
  spc,                 \* where every decode stands
  frame,               \* the locals of every decode's fill_input_buffer
  delivered,           \* the bytes every decode was handed by its fills so far
  serial               \* the caller runs whole requests one after the other

setup_vars == <<fragments, all_jpegs, pc, i, prev, l_pw, l_ph, img00_w, img00_h,
                layer0_w, layer_jpegs_tmp, width_to_layer_map, freed, layers,
                layer_count>>
op_vars == <<call, dest, jcalls, fault, dims>>
src_vars == <<files, fpos, src_mgr, spc, frame, delivered, serial>>
vars == <<setup_vars, op_vars, src_vars>>

Min(a, b) == IF a < b THEN a ELSE b
Max(a, b) == IF a > b THEN a ELSE b

\* integer ceil of a / b for a >= 0, b > 0 (imaxdiv: quot + !!rem)
CeilDiv(a, b) == (a \div b) + (IF a % b # 0 THEN 1 ELSE 0)

(***************************************************************************)
(* Bounds of the model.                                                    *)
(***************************************************************************)
MaxW == 2        \* read_region is asked for 0 .. MaxW columns
MaxH == 2        \* read_region is asked for 0 .. MaxH rows
MaxLen == 3      \* longest fragment list handed to setup validation
MaxFrags == 4    \* longest fragment list of grid coordinates 0 and 1
MaxSkip == 4     \* skip_input_data is asked to skip -1 .. MaxSkip bytes
MaxRequests == 2 \* decodes begun one after the other on one FILE handle
MaxFills == 3    \* fills a request makes while another request may run
INPUT_BUF_SIZE == 3  \* the buffer of the source; 4096 in the code, scaled to the files

(***************************************************************************)
(* Pyramid builder.                                                        *)
(***************************************************************************)

\* is_zxy_successor
is_zxy_successor_YFastest(pz, px, py, z, x, y) ==
  IF z = pz + 1 THEN x = 0 /\ y = 0
  ELSE IF z # pz THEN FALSE
  ELSE IF x = px + 1 THEN y = 0
  ELSE IF x # px THEN FALSE
  ELSE y = py + 1

is_zxy_successor(pz, px, py, z, x, y) ==
  IF z = pz + 1 THEN x = 0 /\ y = 0
  ELSE IF z # pz THEN FALSE
  ELSE IF y = py + 1 THEN x = 0
  ELSE IF y # py THEN FALSE
  ELSE x = px + 1

\* scale_denom = 1; while (scale_denom <= 8) { ..; scale_denom <<= 1; }
ScaleDenoms_Descending == <<8, 4, 2, 1>>

ScaleDenoms == <<1, 2, 4, 8>>

\* one struct layer, as generate_layers_into_map fills it.  The double
\* no_scale_denom_downsample = layer0_w / pixel_w is kept as the pair
\* (ds_num, ds_den) of the two integers it is computed from.
NewLayer(jpegs, jpegs_across, jpegs_down, pixel_w, pixel_h, image00_w, image00_h, l0w, scale_denom) ==
  [ layer_jpegs |-> SubSeq(jpegs, 1, jpegs_across * jpegs_down),
    jpegs_across |-> jpegs_across, jpegs_down |-> jpegs_down,
    pixel_w |-> pixel_w, pixel_h |-> pixel_h,
    scale_denom |-> scale_denom,
    image00_w |-> image00_w, image00_h |-> image00_h,
    ds_num |-> l0w, ds_den |-> pixel_w ]

\* g_hash_table_insert: an equal key replaces the value it maps to
HashInsert_KeepsFirst(map, key, l) ==
  [k \in (DOMAIN map) \cup {key} |-> IF k \in DOMAIN map THEN map[k] ELSE l]

HashInsert(map, key, l) ==
  [k \in (DOMAIN map) \cup {key} |-> IF k = key THEN l ELSE map[k]]

\* generate_layers_into_map: the four layers of one set of JPEGs, inserted in
\* the order scale_denom = 1, 2, 4, 8, each under the key pixel_w / scale_denom
RECURSIVE InsertLayers(_, _, _, _, _, _, _, _, _, _)
InsertLayers(map, n, jpegs, jpegs_across, jpegs_down, pixel_w, pixel_h, image00_w, image00_h, l0w) ==
  IF n > Len(ScaleDenoms) THEN map
  ELSE InsertLayers(
         HashInsert(map, pixel_w \div ScaleDenoms[n],
                    NewLayer(jpegs, jpegs_across, jpegs_down, pixel_w, pixel_h,
                             image00_w, image00_h, l0w, ScaleDenoms[n])),
         n + 1, jpegs, jpegs_across, jpegs_down, pixel_w, pixel_h,
         image00_w, image00_h, l0w)

\* the values g_hash_table_insert hands to layer_free in these four
\* insertions: the layer an equal key mapped to, at each of them
RECURSIVE EvictedLayers(_, _, _, _, _, _, _, _, _, _)
EvictedLayers(map, n, jpegs, jpegs_across, jpegs_down, pixel_w, pixel_h, image00_w, image00_h, l0w) ==
  IF n > Len(ScaleDenoms) THEN <<>>
  ELSE LET key == pixel_w \div ScaleDenoms[n]
       IN (IF key \in DOMAIN map THEN <<map[key]>> ELSE <<>>)
            \o EvictedLayers(
                 HashInsert(map, key,
                            NewLayer(jpegs, jpegs_across, jpegs_down, pixel_w, pixel_h,
                                     image00_w, image00_h, l0w, ScaleDenoms[n])),
                 n + 1, jpegs, jpegs_across, jpegs_down, pixel_w, pixel_h,
                 image00_w, image00_h, l0w)

generate_layers_into_map(jpegs, jpegs_across, jpegs_down, pixel_w, pixel_h, image00_w, image00_h, l0w, map) ==
  InsertLayers(map, 1, jpegs, jpegs_across, jpegs_down, pixel_w, pixel_h,
               image00_w, image00_h, l0w)

\* g_assert(jj) in the copy loop of generate_layers_into_map: the list must
\* hold at least jpegs_across * jpegs_down jpegs
CopyAssertHolds(jpegs, jpegs_across, jpegs_down) ==
  jpegs_across * jpegs_down <= Len(jpegs)

\* one iteration of the loop of create_width_to_layer_map, over fragment i
CreateMapStep ==
  /\ pc = "create_map"
  /\ i < Len(fragments)
  /\ LET fr == fragments[i + 1]
         oj == all_jpegs[i + 1]
         n_img00_w == IF fr.x = 0 /\ fr.y = 0 THEN oj.width ELSE img00_w
         n_img00_h == IF fr.x = 0 /\ fr.y = 0 THEN oj.height ELSE img00_h
         n_pw == IF fr.y = 0 THEN l_pw + oj.width ELSE l_pw
         n_ph == IF fr.x = 0 THEN l_ph + oj.height ELSE l_ph
         n_tmp == Append(layer_jpegs_tmp, i + 1)
         flush == i = Len(fragments) - 1 \/ fragments[i + 2].z # fr.z
         n_l0w == IF flush /\ fr.z = 0 THEN n_pw ELSE layer0_w
     IN
     IF ~is_zxy_successor(prev.z, prev.x, prev.y, fr.z, fr.x, fr.y)
        \/ (flush /\ ~CopyAssertHolds(n_tmp, fr.x + 1, fr.y + 1))
     THEN \* g_assert fails: the process aborts
          /\ pc' = "aborted"
          /\ UNCHANGED <<i, prev, l_pw, l_ph, img00_w, img00_h, layer0_w,
                         layer_jpegs_tmp, width_to_layer_map, freed>>
     ELSE /\ pc' = IF i + 1 = Len(fragments) THEN "publish" ELSE "create_map"
          /\ i' = i + 1
          /\ prev' = [z |-> fr.z, x |-> fr.x, y |-> fr.y]
          /\ layer0_w' = n_l0w
          /\ IF flush
             THEN /\ width_to_layer_map' =
                       generate_layers_into_map(n_tmp, fr.x + 1, fr.y + 1,
                                                n_pw, n_ph, n_img00_w, n_img00_h,
                                                n_l0w, width_to_layer_map)
                  /\ freed' = freed \o EvictedLayers(width_to_layer_map, 1, n_tmp,
                                                      fr.x + 1, fr.y + 1, n_pw, n_ph,
                                                      n_img00_w, n_img00_h, n_l0w)
                  /\ l_pw' = 0 /\ l_ph' = 0
                  /\ img00_w' = 0 /\ img00_h' = 0
                  /\ layer_jpegs_tmp' = <<>>
             ELSE /\ UNCHANGED <<width_to_layer_map, freed>>
                  /\ l_pw' = n_pw /\ l_ph' = n_ph
                  /\ img00_w' = n_img00_w /\ img00_h' = n_img00_h
                  /\ layer_jpegs_tmp' = n_tmp
  /\ UNCHANGED <<fragments, all_jpegs, layers, layer_count, op_vars, src_vars>>

\* width_compare orders keys descending: (w1 < w2) - (w1 > w2)
width_compare_Ascending(w1, w2) == (IF w1 > w2 THEN 1 ELSE 0) - (IF w1 < w2 THEN 1 ELSE 0)

width_compare(w1, w2) == (IF w1 < w2 THEN 1 ELSE 0) - (IF w1 > w2 THEN 1 ELSE 0)

\* g_list_sort of the keys with width_compare
RECURSIVE SortKeys(_)
SortKeys(keys) ==
  IF keys = {} THEN <<>>
  ELSE LET first == CHOOSE k \in keys : \A o \in keys : width_compare(k, o) <= 0
       IN <<first>> \o SortKeys(keys \ {first})

\* the tail of _openslide_add_jpeg_ops: sorted keys, layer_count, the layer
\* array filled in key order (every entry stolen from the table, so the
\* unref of the table releases no layer), ops set
PublishLayers ==
  /\ pc = "publish"
  /\ LET keys == SortKeys(DOMAIN width_to_layer_map)
     IN /\ layer_count' = Cardinality(DOMAIN width_to_layer_map)
        /\ layers' = [n \in 1..Len(keys) |-> width_to_layer_map[keys[n]]]
  /\ width_to_layer_map' = <<>>
  /\ pc' = "ready"
  /\ UNCHANGED <<fragments, all_jpegs, i, prev, l_pw, l_ph, img00_w, img00_h,
                 layer0_w, layer_jpegs_tmp, freed, op_vars, src_vars>>

(***************************************************************************)
(* One-JPEG reader.                                                        *)
(***************************************************************************)

\* the tile window read_from_one_jpeg configures for a read of w x h scaled
\* pixels at (x, y) of one file
tile_x_FirstTile(jpeg, x) == 0

tile_x(jpeg, x) == x \div jpeg.tile_width
tile_y(jpeg, y) == y \div jpeg.tile_height
stride_in_tiles(jpeg) == jpeg.width \div jpeg.tile_width
img_height_in_tiles(jpeg) == jpeg.height \div jpeg.tile_height

width_in_tiles(jpeg, x, scale_denom, w) ==
  Min(CeilDiv(w * scale_denom + (x % jpeg.tile_width), jpeg.tile_width),
      stride_in_tiles(jpeg) - tile_x(jpeg, x))

height_in_tiles(jpeg, y, scale_denom, h) ==
  Min(CeilDiv(h * scale_denom + (y % jpeg.tile_height), jpeg.tile_height),
      img_height_in_tiles(jpeg) - tile_y(jpeg, y))

\* the decoder's output size for the image size it is told
\* (jpeg_start_decompress: the scaled size, rounded up)
output_width(jpeg, x, scale_denom, w) ==
  CeilDiv(Max(0, width_in_tiles(jpeg, x, scale_denom, w)) * jpeg.tile_width, scale_denom)

output_height(jpeg, y, scale_denom, h) ==
  CeilDiv(Max(0, height_in_tiles(jpeg, y, scale_denom, h)) * jpeg.tile_height, scale_denom)

d_x(jpeg, x, scale_denom) == (x % jpeg.tile_width) \div scale_denom
d_y(jpeg, y, scale_denom) == (y % jpeg.tile_height) \div scale_denom

\* the columns the copy loop writes in each row: i < w && i < output_width - d_x
ColsWritten(jpeg, x, scale_denom, w) ==
  Max(0, Min(w, output_width(jpeg, x, scale_denom, w) - d_x(jpeg, x, scale_denom)))

\* the rows written: d_y rows are skipped, then rows are copied until h rows
\* are written or the decoder has no scanline left
RowsWritten(jpeg, y, scale_denom, h) ==
  Max(0, Min(h, output_height(jpeg, y, scale_denom, h) - d_y(jpeg, y, scale_denom)))

\* the decoder's output pixel (ox, oy) of a decode at scale 1/scale_denom of
\* the tile window whose top left tile is (tx, ty): the block of the file
\* that starts at this position of the file
DecoderPixel(jidx, jpeg, tx, ty, scale_denom, ox, oy) ==
  <<jidx, tx * jpeg.tile_width + ox * scale_denom,
          ty * jpeg.tile_height + oy * scale_denom, scale_denom>>

\* the word the copy loop stores for column c, row r of its rectangle
ReaderPixel(jidx, jpeg, x, y, scale_denom, c, r) ==
  DecoderPixel(jidx, jpeg, tile_x(jpeg, x), tile_y(jpeg, y), scale_denom,
               d_x(jpeg, x, scale_denom) + c, d_y(jpeg, y, scale_denom) + r)

(***************************************************************************)
(* Region router.                                                          *)
(***************************************************************************)

\* x / rel_downsample, converted to int64_t, then rounded down to a multiple
\* of scale_denom.  rel_downsample is the double ds_num / ds_den; the sizes
\* of the model keep the double quotient exact.
SrcCoord_Multiplies(v, l) ==
  (((v * l.ds_num) \div l.ds_den) \div l.scale_denom) * l.scale_denom

SrcCoord(v, l) ==
  (((v * l.ds_den) \div l.ds_num) \div l.scale_denom) * l.scale_denom

\* dest_w, dest_h: the scaled size of one file's part of the window
DestLen_RoundsUp(end_in_src_segment, start_in_src_segment, scale_denom) ==
  CeilDiv(end_in_src_segment - start_in_src_segment, scale_denom)

DestLen(end_in_src_segment, start_in_src_segment, scale_denom) ==
  (end_in_src_segment - start_in_src_segment) \div scale_denom

\* the walk of one axis of the file grid (the while loops over src_y and
\* src_x): per intersected file its index, the start inside it, the scaled
\* length and the position in dest
RECURSIVE Segments(_, _, _, _, _)
Segments(src, end_src, image00, scale_denom, dst) ==
  IF src >= end_src THEN <<>>
  ELSE LET file == src \div image00
           origin_src_segment == file * image00
           end_in_src_segment == Min((file + 1) * image00, end_src) - origin_src_segment
           start_in_src_segment == src - origin_src_segment
           len == DestLen(end_in_src_segment, start_in_src_segment, scale_denom)
       IN <<[file |-> file, start |-> start_in_src_segment, len |-> len, dst |-> dst]>>
          \o Segments(end_in_src_segment + origin_src_segment, end_src, image00,
                      scale_denom, dst + len)

SegmentsY_Unclipped(l, y, h) ==
  Segments(SrcCoord(y, l), SrcCoord(y, l) + h * l.scale_denom,
           l.image00_h, l.scale_denom, 0)

SegmentsY(l, y, h) ==
  Segments(SrcCoord(y, l), Min(SrcCoord(y, l) + h * l.scale_denom, l.pixel_h),
           l.image00_h, l.scale_denom, 0)

SegmentsX_Unclipped(l, x, w) ==
  Segments(SrcCoord(x, l), SrcCoord(x, l) + w * l.scale_denom,
           l.image00_w, l.scale_denom, 0)

SegmentsX(l, x, w) ==
  Segments(SrcCoord(x, l), Min(SrcCoord(x, l) + w * l.scale_denom, l.pixel_w),
           l.image00_w, l.scale_denom, 0)

\* l->layer_jpegs[file_y * l->jpegs_across + file_x]; 0 stands for a read
\* outside the array
JpegIndex_Transposed(l, file_x, file_y) ==
  LET n == file_x * l.jpegs_down + file_y
  IN IF n >= 0 /\ n < Len(l.layer_jpegs) THEN l.layer_jpegs[n + 1] ELSE 0

JpegIndex(l, file_x, file_y) ==
  LET n == file_y * l.jpegs_across + file_x
  IN IF n >= 0 /\ n < Len(l.layer_jpegs) THEN l.layer_jpegs[n + 1] ELSE 0

\* one read_from_one_jpeg call of the router, with what the reader does
JpegCall(l, sx, sy) ==
  LET jidx == JpegIndex(l, sx.file, sy.file)
      jpeg == all_jpegs[IF jidx = 0 THEN 1 ELSE jidx]
  IN [ jpeg |-> jidx, file_x |-> sx.file, file_y |-> sy.file,
       x |-> sx.start, y |-> sy.start, scale_denom |-> l.scale_denom,
       w |-> sx.len, h |-> sy.len, dest_x |-> sx.dst, dest_y |-> sy.dst,
       ncols |-> ColsWritten(jpeg, sx.start, l.scale_denom, sx.len),
       nrows |-> RowsWritten(jpeg, sy.start, l.scale_denom, sy.len) ]

\* the calls of one read_region, in the order the two loops make them
RouterCalls(l, x, y, w, h) ==
  LET ys == SegmentsY(l, y, h)
      xs == SegmentsX(l, x, w)
  IN [n \in 1..(Len(ys) * Len(xs)) |->
        JpegCall(l, xs[((n - 1) % Len(xs)) + 1], ys[((n - 1) \div Len(xs)) + 1])]

\* the stores of one reader call into the buffer of pitch w, in order:
\* cur_dest = dest + (dest_y * w + dest_x), dest += stride after each row
CallWrites(c, w) ==
  [k \in 1..(c.nrows * c.ncols) |->
     LET r == (k - 1) \div c.ncols
         col == (k - 1) % c.ncols
     IN [ idx |-> (c.dest_y * w + c.dest_x) + r * w + col,
          val |-> ReaderPixel(c.jpeg, all_jpegs[IF c.jpeg = 0 THEN 1 ELSE c.jpeg],
                              c.x, c.y, c.scale_denom, col, r) ]]

RECURSIVE AllWrites(_, _, _)
AllWrites(calls, n, w) ==
  IF n > Len(calls) THEN <<>>
  ELSE CallWrites(calls[n], w) \o AllWrites(calls, n + 1, w)

\* a word no read has stored into
Untouched == <<0, 0, 0, 0>>

\* a word of the buffer after the stores: the last store into it stays
WordAfter(old, writes, idx) ==
  LET ks == {k \in 1..Len(writes) : writes[k].idx = idx}
  IN IF ks = {} THEN old
     ELSE writes[CHOOSE k \in ks : \A o \in ks : o <= k].val

DestAfter(old, writes) ==
  [idx \in DOMAIN old |-> WordAfter(old[idx], writes, idx)]

FreshBuffer(w, h) == [idx \in 0..(w * h - 1) |-> Untouched]

NoCall == [op |-> "none"]

NoDims == <<-1, -1>>

\* data->layers + layer, then the reads of its fields.  An index inside the
\* array yields that layer.  The code makes no check of its own, so an index
\* outside it reads whatever lies beside the array: the read faults, or it
\* yields bytes that form some struct layer (here: a stale copy of one).
LayerRead(layer) ==
  IF layer >= 0 /\ layer < layer_count
  THEN {[in_bounds |-> TRUE, crash |-> FALSE, l |-> layers[layer + 1]]}
  ELSE {[in_bounds |-> FALSE, crash |-> TRUE, l |-> layers[1]]}
       \cup {[in_bounds |-> FALSE, crash |-> FALSE, l |-> layers[n]] : n \in {1, layer_count}}

\* read_region, the whole call
read_region(x, y, layer, w, h) ==
  /\ pc = "ready"
  /\ call = NoCall
  /\ \E r \in LayerRead(layer) :
       /\ call' = [op |-> "read_region", x |-> x, y |-> y, layer |-> layer,
                   w |-> w, h |-> h]
       /\ IF r.crash
          THEN /\ jcalls' = <<>>
               /\ dest' = FreshBuffer(w, h)
               /\ fault' = TRUE
          ELSE LET calls == RouterCalls(r.l, x, y, w, h)
                   writes == AllWrites(calls, 1, w)
               IN /\ jcalls' = calls
                  /\ dest' = DestAfter(FreshBuffer(w, h), writes)
                  /\ fault' = \/ ~r.in_bounds
                              \/ \E n \in 1..Len(calls) : calls[n].jpeg = 0
                              \/ \E k \in 1..Len(writes) :
                                    writes[k].idx \notin 0..(w * h - 1)
  /\ UNCHANGED <<dims, setup_vars, src_vars>>

\* get_dimensions, the whole call: only layer >= layer_count is checked
get_dimensions(layer) ==
  /\ pc = "ready"
  /\ call = NoCall
  /\ call' = [op |-> "get_dimensions", layer |-> layer]
  /\ IF layer >= layer_count
     THEN /\ dims' = <<0, 0>>
          /\ fault' = FALSE
     ELSE \E r \in LayerRead(layer) :
            /\ fault' = ~r.in_bounds
            /\ dims' = IF r.crash THEN NoDims
                       ELSE <<r.l.pixel_w \div r.l.scale_denom,
                              r.l.pixel_h \div r.l.scale_denom>>
  /\ UNCHANGED <<dest, jcalls, setup_vars, src_vars>>

\* the caller takes its buffer and its results back; the next call is given
\* a buffer of its own
Return ==
  /\ call # NoCall
  /\ call' = NoCall
  /\ dest' = <<>>
  /\ jcalls' = <<>>
  /\ fault' = FALSE
  /\ dims' = NoDims
  /\ UNCHANGED <<setup_vars, src_vars>>

\* the requests tried: every layer index from -1 to layer_count, every
\* origin of the widest layer's extent (its far corner included)
ReadRegion ==
  /\ pc = "ready"
  /\ call = NoCall
  /\ \E layer \in -1..layer_count, x \in 0..layers[1].pixel_w,
        y \in 0..layers[1].pixel_h, w \in 0..MaxW, h \in 0..MaxH :
       read_region(x, y, layer, w, h)

GetDimensions ==
  /\ pc = "ready"
  /\ call = NoCall
  /\ \E layer \in -1..(layer_count + 1) : get_dimensions(layer)

(***************************************************************************)
(* Fancy source: the libjpeg source manager that hands a decode the header *)
(* of a file and then the restart intervals of one window of tiles.        *)
(***************************************************************************)

FF == 255
RST0 == 208
JPEG_EOI == 217

\* stands for INT64_MAX: the largest integer of the checker, which no file
\* position comes near
INT64_MAX == 2147483647

\* b >= 0xD0 && b < 0xD8
IsRST(b) == b >= RST0 /\ b < RST0 + 8

\* the decodes that may share one FILE handle
Decoders == {1, 2}

\* the memory a source manager is allocated in, before anything is set
NoSrc ==
  [ start_positions |-> <<>>, topleft |-> 0, width |-> 0, stride |-> 0,
    start_of_file |-> FALSE, next_restart_marker |-> 0,
    next_start_offset |-> 0, next_start_position |-> 0, stop_position |-> 0,
    buffer |-> <<>>, next_input_byte |-> 0, bytes_in_buffer |-> 0,
    failed |-> "no" ]

\* the locals of fill_input_buffer before its first call
NoFrame == [pos |-> 0, bytes_to_read |-> 0, rewrite_markers |-> FALSE, fills |-> 0]

\* compute_next_positions that stops a segment at the end of its tile row
\* instead of the end of the window
compute_next_positions_WholeRows(s) ==
  LET count == Len(s.start_positions)
  IN IF count = 0
     THEN [s EXCEPT !.next_start_position = 0, !.stop_position = INT64_MAX]
     ELSE IF s.start_of_file
     THEN [s EXCEPT !.next_start_offset = s.topleft - s.stride,
                    !.stop_position = s.start_positions[1],
                    !.next_start_position = 0,
                    !.failed = IF s.topleft - s.stride < count THEN "no" ELSE "assert"]
     ELSE LET nso == s.next_start_offset + s.stride
              stop_offset == nso + s.stride
          IN IF ~(nso >= 0 /\ nso < count)
             THEN [s EXCEPT !.next_start_offset = nso, !.failed = "assert"]
             ELSE [s EXCEPT !.next_start_offset = nso,
                            !.next_start_position = s.start_positions[nso + 1],
                            !.stop_position =
                               IF stop_offset < count
                               THEN s.start_positions[stop_offset + 1]
                               ELSE INT64_MAX]

\* compute_next_positions; failed = "assert" when a g_assert does not hold
compute_next_positions(s) ==
  LET count == Len(s.start_positions)
  IN IF count = 0
     THEN [s EXCEPT !.next_start_position = 0, !.stop_position = INT64_MAX]
     ELSE IF s.start_of_file
     THEN [s EXCEPT !.next_start_offset = s.topleft - s.stride,
                    !.stop_position = s.start_positions[1],
                    !.next_start_position = 0,
                    !.failed = IF s.topleft - s.stride < count THEN "no" ELSE "assert"]
     ELSE LET nso == s.next_start_offset + s.stride
              stop_offset == nso + s.width
          IN IF ~(nso >= 0 /\ nso < count)
             THEN [s EXCEPT !.next_start_offset = nso, !.failed = "assert"]
             ELSE [s EXCEPT !.next_start_offset = nso,
                            !.next_start_position = s.start_positions[nso + 1],
                            !.stop_position =
                               IF stop_offset < count
                               THEN s.start_positions[stop_offset + 1]
                               ELSE INT64_MAX]

\* _openslide_jpeg_fancy_src on the memory s: the fields it does not set
\* keep what the memory held
_openslide_jpeg_fancy_src(s, start_positions, topleft, width, stride) ==
  [s EXCEPT !.start_positions = start_positions,
            !.topleft = topleft, !.width = width, !.stride = stride,
            !.bytes_in_buffer = 0, !.next_input_byte = 0, !.failed = "no"]

\* init_source
init_source(s) ==
  compute_next_positions([s EXCEPT !.start_of_file = TRUE, !.next_restart_marker = 0])

\* the marker loop of fill_input_buffer over the bytes just read, from
\* byte k on
RECURSIVE RewriteMarkers(_, _, _, _)
RewriteMarkers(buf, k, last_was_ff, next_restart_marker) ==
  IF k > Len(buf)
  THEN [buffer |-> buf, next_restart_marker |-> next_restart_marker,
        last_was_ff |-> last_was_ff]
  ELSE IF last_was_ff /\ IsRST(buf[k])
  THEN RewriteMarkers([buf EXCEPT ![k] = RST0 + next_restart_marker], k + 1,
                      buf[k] = FF, (next_restart_marker + 1) % 8)
  ELSE RewriteMarkers(buf, k + 1, buf[k] = FF, next_restart_marker)

\* the rewind by one byte of a fill that ends on FF
EndsOnFF_Always(last_was_ff, nbytes) == last_was_ff

EndsOnFF_Never(last_was_ff, nbytes) == FALSE

EndsOnFF(last_was_ff, nbytes) == last_was_ff /\ nbytes > 1

\* the fake EOI marker of a read that returns nothing
FakeEOI == <<FF, JPEG_EOI>>

\* MIN((int64_t) (stop_position - pos), bytes_to_read) with bytes_to_read a
\* size_t of the width of int64_t: the comparison is unsigned, so a negative
\* difference counts as a huge one and the result is bytes_to_read
size_t_MIN(a, bytes_to_read) == IF a < 0 THEN bytes_to_read ELSE Min(a, bytes_to_read)

\* fill_input_buffer of the source s on a file of these bytes whose handle
\* stands at pos: the source and the position afterwards, and the bytes put
\* in the buffer with the file offset of each (-1 for the fake EOI)
fill_input_buffer(s, bytes, pos) ==
  LET count == Len(s.start_positions)
      rewrite_markers == ~(count = 0 \/ pos < s.start_positions[1])
  IN IF ~(pos <= s.stop_position)
     THEN [src |-> [s EXCEPT !.failed = "assert"], pos |-> pos, out |-> <<>>]
     ELSE
       LET s1 == IF pos = s.stop_position THEN compute_next_positions(s) ELSE s
           start == IF pos = s.stop_position THEN s1.next_start_position ELSE pos
           bytes_to_read == size_t_MIN(s1.stop_position - start, INPUT_BUF_SIZE)
           got == SubSeq(bytes, start + 1, Min(start + bytes_to_read, Len(bytes)))
       IN IF s1.failed # "no"
          THEN [src |-> s1, pos |-> pos, out |-> <<>>]
          ELSE IF Len(got) = 0
          THEN IF s.start_of_file
               THEN [src |-> [s1 EXCEPT !.failed = "errexit"], pos |-> start, out |-> <<>>]
               ELSE [src |-> [s1 EXCEPT !.buffer = FakeEOI, !.next_input_byte = 0,
                                        !.bytes_in_buffer = 2, !.start_of_file = FALSE],
                     pos |-> start,
                     out |-> <<<<-1, FF>>, <<-1, JPEG_EOI>>>>]
          ELSE IF rewrite_markers
          THEN LET r == RewriteMarkers(got, 1, FALSE, s1.next_restart_marker)
                   nbytes == IF EndsOnFF(r.last_was_ff, Len(got))
                             THEN Len(got) - 1 ELSE Len(got)
               IN [src |-> [s1 EXCEPT !.buffer = SubSeq(r.buffer, 1, nbytes),
                                      !.next_restart_marker = r.next_restart_marker,
                                      !.next_input_byte = 0,
                                      !.bytes_in_buffer = nbytes,
                                      !.start_of_file = FALSE],
                   pos |-> start + nbytes,
                   out |-> [k \in 1..nbytes |-> <<start + k - 1, r.buffer[k]>>]]
          ELSE [src |-> [s1 EXCEPT !.buffer = got, !.next_input_byte = 0,
                                   !.bytes_in_buffer = Len(got),
                                   !.start_of_file = FALSE],
                pos |-> start + Len(got),
                out |-> [k \in 1..Len(got) |-> <<start + k - 1, got[k]>>]]

\* the decoder takes one byte: if (bytes_in_buffer == 0) fill_input_buffer;
\* b = *next_input_byte++; bytes_in_buffer--
read_byte(s, bytes, pos) ==
  LET f == IF s.bytes_in_buffer = 0 THEN fill_input_buffer(s, bytes, pos)
           ELSE [src |-> s, pos |-> pos, out |-> <<>>]
  IN IF f.src.failed # "no" THEN f
     ELSE [f EXCEPT !.src.next_input_byte = @ + 1, !.src.bytes_in_buffer = @ - 1]

\* the loop of skip_input_data
RECURSIVE SkipLoop(_, _, _, _, _)
SkipLoop(s, bytes, pos, num_bytes, out) ==
  IF s.failed # "no" THEN [src |-> s, pos |-> pos, out |-> out]
  ELSE IF num_bytes > s.bytes_in_buffer
  THEN LET f == fill_input_buffer(s, bytes, pos)
       IN SkipLoop(f.src, bytes, f.pos, num_bytes - s.bytes_in_buffer, out \o f.out)
  ELSE [src |-> [s EXCEPT !.next_input_byte = @ + num_bytes,
                          !.bytes_in_buffer = @ - num_bytes],
        pos |-> pos, out |-> out]

skip_input_data_OneFill(s, bytes, pos, num_bytes) ==
  IF num_bytes > 0 /\ num_bytes > s.bytes_in_buffer
  THEN LET f == fill_input_buffer(s, bytes, pos)
       IN IF f.src.failed # "no" THEN f
          ELSE [f EXCEPT !.src.next_input_byte = Min(num_bytes, f.src.bytes_in_buffer),
                         !.src.bytes_in_buffer = @ - Min(num_bytes, @)]
  ELSE SkipLoop(s, bytes, pos, Max(num_bytes, 0), <<>>)

skip_input_data(s, bytes, pos, num_bytes) ==
  IF num_bytes > 0 THEN SkipLoop(s, bytes, pos, num_bytes, <<>>)
  ELSE [src |-> s, pos |-> pos, out |-> <<>>]

\* the file under decode and its struct one_jpeg
TheFile == files[1]
TheJpeg == all_jpegs[1]

\* the fake EOI has been handed to decode d
HadEOI(d) == \E k \in 1..Len(delivered[d]) : delivered[d][k][1] = -1

\* the decodes begun so far on the handle
Requests == IF call = NoCall THEN 0 ELSE call.request

\* the outcome of a step of decode d
AfterStep(d, f) ==
  /\ src_mgr' = [src_mgr EXCEPT ![d] = f.src]
  /\ fpos' = f.pos
  /\ delivered' = [delivered EXCEPT ![d] = @ \o f.out]
  /\ spc' = [spc EXCEPT ![d] = IF f.src.failed = "no" THEN "run" ELSE "aborted"]

\* rewind(jpeg->f)
rewind_KeepsPosition(pos) == pos

rewind(pos) == 0

\* the tile windows read_from_one_jpeg asks of a file, and the whole file
\* without a table that compute_optimization and init_one_jpeg ask for
Windows ==
  {[start_positions |-> <<>>, topleft |-> 0, width |-> 0, stride |-> 0]}
    \cup
  {[start_positions |-> TheJpeg.mcu_starts,
    topleft |-> ty * stride_in_tiles(TheJpeg) + tx,
    width |-> wt, stride |-> stride_in_tiles(TheJpeg)] :
     <<tx, ty, wt>> \in
       {t \in (0..(stride_in_tiles(TheJpeg) - 1))
                 \X (0..(img_height_in_tiles(TheJpeg) - 1))
                 \X (1..stride_in_tiles(TheJpeg)) :
          t[3] <= stride_in_tiles(TheJpeg) - t[1]}}

\* a request begins its decode: rewind, a source manager in new memory,
\* _openslide_jpeg_fancy_src, and init_source from jpeg_read_header.  The
\* decode before it on this handle was destroyed wherever it stood.
StartDecode(d) ==
  /\ spc[d] \in {"idle", "run"}
  /\ Requests < MaxRequests
  /\ call' = [op |-> "start", request |-> Requests + 1]
  /\ \E win \in Windows :
       LET s == init_source(_openslide_jpeg_fancy_src(
                  src_mgr[d], win.start_positions, win.topleft, win.width, win.stride))
       IN /\ src_mgr' = [src_mgr EXCEPT ![d] = s]
          /\ spc' = [spc EXCEPT ![d] = IF s.failed = "no" THEN "run" ELSE "aborted"]
  /\ fpos' = rewind(fpos)
  /\ delivered' = [delivered EXCEPT ![d] = <<>>]
  /\ UNCHANGED <<files, serial, frame, setup_vars, dest, jcalls, fault, dims>>

\* the decoder reads its next byte
ReadByte(d) ==
  /\ spc[d] = "run"
  /\ src_mgr[d].bytes_in_buffer > 0 \/ ~HadEOI(d)
  /\ AfterStep(d, read_byte(src_mgr[d], TheFile.bytes, fpos))
  /\ call' = [op |-> "read_byte", request |-> Requests]
  /\ UNCHANGED <<files, serial, frame, setup_vars, dest, jcalls, fault, dims>>

\* the decoder skips num_bytes bytes
SkipInputData(d) ==
  /\ spc[d] = "run"
  /\ ~HadEOI(d)
  /\ \E num_bytes \in -1..MaxSkip :
       /\ AfterStep(d, skip_input_data(src_mgr[d], TheFile.bytes, fpos, num_bytes))
       /\ call' = [op |-> "skip_input_data", request |-> Requests,
                   num_bytes |-> num_bytes, from |-> Len(delivered[d])]
  /\ UNCHANGED <<files, serial, frame, setup_vars, dest, jcalls, fault, dims>>

(***************************************************************************)
(* Inputs.                                                                 *)
(***************************************************************************)

\* a dense grid of files of one z, in the order setup accepts (x fastest):
\* across x down files of w0 x h0 pixels, the last column wl <= w0 wide and
\* the last row hl <= h0 high.  A file is cut in tiles of tw x th pixels, a
\* multiple of the 8 x 8 DCT block, or is one tile when it is smaller.
GridFragments(z, g) ==
  [k \in 1..(g.across * g.down) |->
     [z |-> z, x |-> (k - 1) % g.across, y |-> (k - 1) \div g.across]]

GridJpegs(g) ==
  [k \in 1..(g.across * g.down) |->
     LET width == IF (k - 1) % g.across = g.across - 1 THEN g.wl ELSE g.w0
         height == IF (k - 1) \div g.across = g.down - 1 THEN g.hl ELSE g.h0
     IN [ width |-> width, height |-> height,
          tile_width |-> Min(g.tw, width), tile_height |-> Min(g.th, height) ]]

G(across, down, w0, wl, h0, hl, tw, th) ==
  [across |-> across, down |-> down, w0 |-> w0, wl |-> wl, h0 |-> h0, hl |-> hl,
   tw |-> tw, th |-> th]

\* the slides read_region is tried on, one grid per z
Slides ==
  { <<G(2, 1, 16, 16, 8, 8, 8, 8)>>,
    <<G(1, 2, 8, 8, 16, 16, 8, 8)>>,
    <<G(2, 2, 8, 4, 8, 4, 8, 8)>>,
    <<G(2, 2, 4, 4, 4, 4, 8, 8)>>,
    <<G(2, 2, 6, 6, 3, 3, 8, 8)>>,
    <<G(2, 2, 8, 8, 8, 8, 8, 8), G(2, 2, 4, 4, 4, 4, 8, 8)>>,
    <<G(2, 2, 8, 4, 8, 4, 8, 8), G(1, 1, 8, 8, 8, 8, 8, 8)>> }

RECURSIVE SlideFragments(_, _)
SlideFragments(slide, z) ==
  IF z >= Len(slide) THEN <<>>
  ELSE GridFragments(z, slide[z + 1]) \o SlideFragments(slide, z + 1)

RECURSIVE SlideJpegs(_, _)
SlideJpegs(slide, z) ==
  IF z >= Len(slide) THEN <<>>
  ELSE GridJpegs(slide[z + 1]) \o SlideJpegs(slide, z + 1)

InitLocals ==
  /\ pc = "create_map"
  /\ i = 0
  /\ prev = [z |-> -1, x |-> -1, y |-> -1]
  /\ l_pw = 0 /\ l_ph = 0
  /\ img00_w = 0 /\ img00_h = 0
  /\ layer0_w = 0
  /\ layer_jpegs_tmp = <<>>
  /\ width_to_layer_map = <<>>
  /\ freed = <<>>
  /\ layers = <<>>
  /\ layer_count = 0
  /\ call = NoCall
  /\ dest = <<>>
  /\ jcalls = <<>>
  /\ fault = FALSE
  /\ dims = NoDims
  /\ files = <<>>
  /\ fpos = 0
  /\ src_mgr = [d \in Decoders |-> NoSrc]
  /\ spc = [d \in Decoders |-> "idle"]
  /\ delivered = [d \in Decoders |-> <<>>]
  /\ serial = TRUE
  /\ frame = [d \in Decoders |-> NoFrame]

\* setup over a slide that keeps the input contract, then the operations
Init ==
  /\ \E slide \in Slides :
       /\ fragments = SlideFragments(slide, 0)
       /\ all_jpegs = SlideJpegs(slide, 0)
  /\ InitLocals

Next == CreateMapStep \/ PublishLayers \/ ReadRegion \/ GetDimensions \/ Return

Spec == Init /\ [][Next]_vars

\* setup over any fragment list of up to MaxLen fragments with coordinates
\* around the -1 the loop starts from, every file of the same size
Coords == {-1, 0, 1}

FragmentOf(t) == [z |-> t[1], x |-> t[2], y |-> t[3]]

FragmentLists ==
  UNION { [1..n -> {FragmentOf(t) : t \in Coords \X {0, 1} \X Coords}] : n \in 1..MaxLen }

InitSetup ==
  /\ fragments \in FragmentLists
  /\ all_jpegs = [k \in 1..Len(fragments) |->
                    [width |-> 8, height |-> 8, tile_width |-> 8, tile_height |-> 8]]
  /\ InitLocals

NextSetup == CreateMapStep \/ PublishLayers

SpecSetup == InitSetup /\ [][NextSetup]_vars

\* setup over any fragment list of up to MaxLen fragments with grid
\* coordinates 0 and 1
GridLists ==
  UNION { [1..n -> {FragmentOf(t) : t \in {0, 1} \X {0, 1} \X {0, 1}}] : n \in 1..MaxLen }

InitGrid ==
  /\ fragments \in GridLists
  /\ all_jpegs = [k \in 1..Len(fragments) |->
                    [width |-> 8, height |-> 8, tile_width |-> 8, tile_height |-> 8]]
  /\ InitLocals

SpecGrid == InitGrid /\ [][NextSetup]_vars

\* setup over any fragment list of up to MaxFrags fragments with grid
\* coordinates 0 and 1: long enough for a grid of two columns and two rows
ContractLists ==
  UNION { [1..n -> {FragmentOf(t) : t \in {0, 1} \X {0, 1} \X {0, 1}}] : n \in 1..MaxFrags }

InitContract ==
  /\ fragments \in ContractLists
  /\ all_jpegs = [k \in 1..Len(fragments) |->
                    [width |-> 8, height |-> 8, tile_width |-> 8, tile_height |-> 8]]
  /\ InitLocals

SpecContract == InitContract /\ [][NextSetup]_vars

\* slides of one or two depths, each a row of one or two files 1, 2, 4 or 8
\* pixels wide: widths that halve to the same key within one depth and
\* across depths
PyramidGrids == {G(across, 1, w, w, 8, 8, 8, 8) : across \in 1..2, w \in {1, 2, 4, 8}}
PyramidSlides == {<<g>> : g \in PyramidGrids} \cup {<<g, h>> : g, h \in PyramidGrids}

InitPyramid ==
  /\ \E slide \in PyramidSlides :
       /\ fragments = SlideFragments(slide, 0)
       /\ all_jpegs = SlideJpegs(slide, 0)
  /\ InitLocals

SpecPyramid == InitPyramid /\ [][NextSetup]_vars

\* the entropy-coded data of a file: its restart intervals, an RSTn marker
\* numbered modulo 8 after each but the last, EOI after the last
RECURSIVE Entropy(_, _)
Entropy(tiles, k) ==
  IF k > Len(tiles) THEN <<>>
  ELSE tiles[k]
         \o (IF k < Len(tiles) THEN <<FF, RST0 + ((k - 1) % 8)>> ELSE <<FF, JPEG_EOI>>)
         \o Entropy(tiles, k + 1)

\* a JPEG file of across x down MCUs of 8 x 8 pixels with a restart marker
\* after every MCU: its bytes, and what libjpeg reads from its header
JpegFile(header, tiles, across, down) ==
  [ bytes |-> header \o Entropy(tiles, 1), header_length |-> Len(header),
    width |-> 8 * across, height |-> 8 * down,
    MCUs_per_row |-> across, MCU_rows_in_scan |-> down, restart_interval |-> 1 ]

\* SOI, SOS and one byte of scan header
Header == <<FF, 216, FF, 218, 0>>

\* the data of one restart interval: plain bytes, a stuffed FF 00 inside
\* and in front, and an FF fill byte in front of the marker that follows
TileData == {<<7>>, <<7, FF, 0>>, <<FF, 0, 7>>, <<7, FF>>}

\* a file cut off n bytes before its end
Truncated(f, n) == [f EXCEPT !.bytes = SubSeq(@, 1, Len(@) - n)]

\* files of 2 x 2 tiles, one of 1 x 11 tiles whose markers go once round the
\* eight numbers, and one cut off in front of its EOI, its last byte an FF
SrcFiles ==
  {JpegFile(Header, <<t[1], t[2], t[2], t[1]>>, 2, 2) : t \in [1..2 -> TileData]}
    \cup {JpegFile(Header, [k \in 1..11 |-> <<7>>], 1, 11)}
    \cup {Truncated(JpegFile(Header, <<<<7>>, <<7>>, <<7>>, <<7, FF>>>>, 2, 2), 2)}

\* the marker search of compute_optimization over the bytes after the
\* header, the fake EOI of the source at their end: the table, and whether
\* a position was stored past its end
RECURSIVE FindMarkers(_, _, _, _, _, _)
FindMarkers(stream, k, last_was_ff, marker, starts, base) ==
  IF marker >= Len(starts) \/ k > Len(stream)
  THEN [mcu_starts |-> starts, overflow |-> FALSE]
  ELSE IF last_was_ff /\ stream[k] = JPEG_EOI
  THEN [mcu_starts |-> starts, overflow |-> FALSE]
  ELSE IF last_was_ff /\ IsRST(stream[k])
  THEN IF 1 + marker >= Len(starts)
       THEN [mcu_starts |-> starts, overflow |-> TRUE]
       ELSE FindMarkers(stream, k + 1, FALSE, marker + 1,
                        [starts EXCEPT ![marker + 2] = base + k], base)
  ELSE FindMarkers(stream, k + 1, stream[k] = FF, marker, starts, base)

\* compute_optimization: MCUs / restart_interval zeroed entries, the first
\* the end of the header.  A division by zero, or a store into an array of
\* no entries, ends the process.
compute_optimization(f) ==
  IF f.restart_interval = 0
     \/ (f.MCUs_per_row * f.MCU_rows_in_scan) \div f.restart_interval = 0
  THEN [crash |-> TRUE, mcu_starts |-> <<>>, overflow |-> FALSE]
  ELSE LET count == (f.MCUs_per_row * f.MCU_rows_in_scan) \div f.restart_interval
           found == FindMarkers(
                      SubSeq(f.bytes, f.header_length + 1, Len(f.bytes)) \o FakeEOI,
                      1, FALSE, 0,
                      [k \in 1..count |-> IF k = 1 THEN f.header_length ELSE 0],
                      f.header_length)
       IN [crash |-> FALSE, mcu_starts |-> found.mcu_starts, overflow |-> found.overflow]

\* init_one_jpeg: the table, the size and the tile size of one file
init_one_jpeg(f) ==
  LET opt == compute_optimization(f)
  IN IF opt.crash \/ f.MCUs_per_row \div f.restart_interval = 0
     THEN [crash |-> TRUE]
     ELSE [ crash |-> FALSE, mcu_starts |-> opt.mcu_starts, overflow |-> opt.overflow,
            width |-> f.width, height |-> f.height,
            tile_width |-> f.width \div (f.MCUs_per_row \div f.restart_interval),
            tile_height |-> f.height \div f.MCU_rows_in_scan ]

\* the setup locals while decodes run on a loaded file
SetupDone ==
  /\ pc = "decode"
  /\ i = 0
  /\ prev = [z |-> -1, x |-> -1, y |-> -1]
  /\ l_pw = 0 /\ l_ph = 0
  /\ img00_w = 0 /\ img00_h = 0
  /\ layer0_w = 0
  /\ layer_jpegs_tmp = <<>>
  /\ width_to_layer_map = <<>>
  /\ freed = <<>>
  /\ layers = <<>>
  /\ layer_count = 0
  /\ call = NoCall
  /\ dest = <<>>
  /\ jcalls = <<>>
  /\ fault = FALSE
  /\ dims = NoDims

\* one file, loaded by init_one_jpeg, and decodes on it one after the other
InitSrc ==
  /\ files \in {<<f>> : f \in SrcFiles}
  /\ all_jpegs = <<init_one_jpeg(files[1])>>
  /\ fragments = <<[z |-> 0, x |-> 0, y |-> 0]>>
  /\ SetupDone
  /\ fpos = 0
  /\ src_mgr = [d \in Decoders |-> NoSrc]
  /\ spc = [d \in Decoders |-> "idle"]
  /\ delivered = [d \in Decoders |-> <<>>]
  /\ serial = TRUE
  /\ frame = [d \in Decoders |-> NoFrame]

NextSrc == StartDecode(1) \/ ReadByte(1) \/ SkipInputData(1)

SpecSrc == InitSrc /\ [][NextSrc]_vars

(***************************************************************************)
(* Two requests on one struct one_jpeg: each has its own decompress object *)
(* and source manager, both use the one FILE handle.  Every call on the    *)
(* handle (rewind, ftello, fseeko, fread, fseek) is a step of its own.     *)
(***************************************************************************)

\* no g_assert or ERREXIT has ended the process
Alive == \A d \in Decoders : spc[d] # "aborted"

\* the tile windows of read_from_one_jpeg
TableWindows == {win \in Windows : win.start_positions # <<>>}

\* read_from_one_jpeg up to the first fill: rewind(jpeg->f), a source manager
\* in the new decompress object, init_source.  Every thread makes one
\* request; when the caller serialises requests it begins one only while no
\* other is under way.
BeginRequest(d) ==
  /\ Alive
  /\ spc[d] = "idle"
  /\ serial => \A e \in Decoders : spc[e] \in {"idle", "done"}
  /\ \E win \in TableWindows :
       LET s == init_source(_openslide_jpeg_fancy_src(
                  src_mgr[d], win.start_positions, win.topleft, win.width, win.stride))
       IN /\ src_mgr' = [src_mgr EXCEPT ![d] = s]
          /\ spc' = [spc EXCEPT ![d] = IF s.failed = "no" THEN "fill" ELSE "aborted"]
  /\ fpos' = rewind(fpos)
  /\ frame' = [frame EXCEPT ![d] = NoFrame]
  /\ delivered' = [delivered EXCEPT ![d] = <<>>]
  /\ UNCHANGED <<files, serial, setup_vars, op_vars>>

\* fill_input_buffer from ftello to the choice of bytes_to_read; a request
\* makes at most MaxFills fills
Ftello(d) ==
  /\ Alive
  /\ spc[d] = "fill"
  /\ frame[d].fills < MaxFills
  /\ LET s == src_mgr[d]
         pos == fpos
         rewrite_markers == ~(Len(s.start_positions) = 0 \/ pos < s.start_positions[1])
         s1 == compute_next_positions(s)
     IN IF ~(pos <= s.stop_position)
        THEN /\ src_mgr' = [src_mgr EXCEPT ![d].failed = "assert_pos"]
             /\ spc' = [spc EXCEPT ![d] = "aborted"]
             /\ frame' = [frame EXCEPT ![d] = [pos |-> pos, bytes_to_read |-> 0,
                                               rewrite_markers |-> rewrite_markers,
                                               fills |-> @.fills + 1]]
        ELSE IF pos < s.stop_position
        THEN /\ frame' = [frame EXCEPT ![d] =
                            [pos |-> pos,
                             bytes_to_read |-> Min(s.stop_position - pos, INPUT_BUF_SIZE),
                             rewrite_markers |-> rewrite_markers,
                             fills |-> @.fills + 1]]
             /\ spc' = [spc EXCEPT ![d] = "fread"]
             /\ UNCHANGED src_mgr
        ELSE /\ src_mgr' = [src_mgr EXCEPT ![d] = s1]
             /\ spc' = [spc EXCEPT ![d] = IF s1.failed = "no" THEN "fseeko" ELSE "aborted"]
             /\ frame' = [frame EXCEPT ![d] =
                            [pos |-> pos,
                             bytes_to_read |-> Min(s1.stop_position - s1.next_start_position,
                                                   INPUT_BUF_SIZE),
                             rewrite_markers |-> rewrite_markers,
                             fills |-> @.fills + 1]]
  /\ UNCHANGED <<files, fpos, delivered, serial, setup_vars, op_vars>>

\* fseeko(src->infile, src->next_start_position, SEEK_SET)
Fseeko(d) ==
  /\ Alive
  /\ spc[d] = "fseeko"
  /\ fpos' = src_mgr[d].next_start_position
  /\ spc' = [spc EXCEPT ![d] = "fread"]
  /\ UNCHANGED <<files, src_mgr, frame, delivered, serial, setup_vars, op_vars>>

\* fread at wherever the handle stands, then the fake EOI or the marker loop
Fread(d) ==
  /\ Alive
  /\ spc[d] = "fread"
  /\ LET s == src_mgr[d]
         bytes == TheFile.bytes
         got == SubSeq(bytes, fpos + 1, Min(fpos + frame[d].bytes_to_read, Len(bytes)))
         r == RewriteMarkers(got, 1, FALSE, s.next_restart_marker)
         back == frame[d].rewrite_markers /\ EndsOnFF(r.last_was_ff, Len(got))
         nbytes == IF back THEN Len(got) - 1 ELSE Len(got)
         buffer == IF frame[d].rewrite_markers THEN SubSeq(r.buffer, 1, nbytes) ELSE got
     IN /\ fpos' = fpos + Len(got)
        /\ IF Len(got) = 0
           THEN IF s.start_of_file
                THEN /\ src_mgr' = [src_mgr EXCEPT ![d].failed = "errexit"]
                     /\ spc' = [spc EXCEPT ![d] = "aborted"]
                     /\ UNCHANGED delivered
                ELSE /\ src_mgr' = [src_mgr EXCEPT ![d].buffer = FakeEOI,
                                                   ![d].next_input_byte = 0,
                                                   ![d].bytes_in_buffer = 2]
                     /\ spc' = [spc EXCEPT ![d] = "eoi"]
                     /\ delivered' = [delivered EXCEPT
                                        ![d] = @ \o <<<<-1, FF>>, <<-1, JPEG_EOI>>>>]
           ELSE /\ src_mgr' = [src_mgr EXCEPT
                                 ![d].buffer = buffer,
                                 ![d].next_restart_marker =
                                    IF frame[d].rewrite_markers
                                    THEN r.next_restart_marker ELSE @,
                                 ![d].next_input_byte = 0,
                                 ![d].bytes_in_buffer = nbytes,
                                 ![d].start_of_file = FALSE]
                /\ spc' = [spc EXCEPT ![d] = IF back THEN "fseek" ELSE "fill"]
                /\ delivered' = [delivered EXCEPT
                                   ![d] = @ \o [k \in 1..nbytes |-> <<fpos + k - 1, buffer[k]>>]]
  /\ UNCHANGED <<files, frame, serial, setup_vars, op_vars>>

\* fseek(src->infile, -1, SEEK_CUR) of a fill that ended on FF; at offset 0
\* the call fails and the handle stays where it is
FseekBack(d) ==
  /\ Alive
  /\ spc[d] = "fseek"
  /\ fpos' = Max(fpos - 1, 0)
  /\ spc' = [spc EXCEPT ![d] = "fill"]
  /\ UNCHANGED <<files, src_mgr, frame, delivered, serial, setup_vars, op_vars>>

\* the decoder has the scanlines it wanted: jpeg_destroy_decompress frees
\* the source manager; the handle stays where the last fill left it
EndRequest(d) ==
  /\ Alive
  /\ spc[d] \in {"fill", "eoi"}
  /\ spc' = [spc EXCEPT ![d] = "done"]
  /\ src_mgr' = [src_mgr EXCEPT ![d] = NoSrc]
  /\ frame' = [frame EXCEPT ![d] = NoFrame]
  /\ delivered' = [delivered EXCEPT ![d] = <<>>]
  /\ UNCHANGED <<files, fpos, serial, setup_vars, op_vars>>

\* the files two requests share
SharedFiles == {JpegFile(Header, [k \in 1..4 |-> <<7>>], 2, 2), JpegFile(Header, <<<<7, FF>>, <<7>>, <<7, FF, 0>>, <<7>>>>, 2, 2)}

\* one loaded file and a caller that serialises its requests or does not
InitShared ==
  /\ files \in {<<f>> : f \in SharedFiles}
  /\ all_jpegs = <<init_one_jpeg(files[1])>>
  /\ fragments = <<[z |-> 0, x |-> 0, y |-> 0]>>
  /\ SetupDone
  /\ fpos = 0
  /\ src_mgr = [d \in Decoders |-> NoSrc]
  /\ spc = [d \in Decoders |-> "idle"]
  /\ frame = [d \in Decoders |-> NoFrame]
  /\ delivered = [d \in Decoders |-> <<>>]
  /\ serial \in BOOLEAN

NextShared == \E d \in Decoders : BeginRequest(d) \/ Ftello(d) \/ Fseeko(d) \/ Fread(d) \/ FseekBack(d) \/ EndRequest(d)

SpecShared == InitShared /\ [][NextShared]_vars

\* files handed to setup: one that conforms, one whose header declares no
\* restart interval, one that declares an interval of one MCU but has no
\* RSTn marker in its data, and one with a marker more than its MCUs need
NoRestartFile == [JpegFile(Header, <<<<7, 7, 7>>>>, 2, 2) EXCEPT !.restart_interval = 0]
NoMarkerFile == JpegFile(Header, <<<<7, 7, 7>>>>, 2, 2)
ExtraMarkerFile == JpegFile(Header, [k \in 1..5 |-> <<7>>], 2, 2)
LoadFiles == {JpegFile(Header, [k \in 1..4 |-> <<7>>], 2, 2), NoRestartFile, NoMarkerFile, ExtraMarkerFile}

\* the loop of _openslide_add_jpeg_ops over init_one_jpeg: a division by
\* zero or a store through the empty table ends the process; a store past
\* the end of the table may end it or go unnoticed
LoadOneJpeg ==
  /\ pc = "load"
  /\ i < Len(files)
  /\ LET onej == init_one_jpeg(files[i + 1])
     IN \/ /\ onej.crash
           /\ pc' = "aborted"
           /\ UNCHANGED <<all_jpegs, i>>
        \/ /\ ~onej.crash
           /\ onej.overflow
           /\ pc' = "aborted"
           /\ UNCHANGED <<all_jpegs, i>>
        \/ /\ ~onej.crash
           /\ all_jpegs' = Append(all_jpegs, onej)
           /\ IF i + 1 = Len(files)
              THEN pc' = "create_map" /\ i' = 0
              ELSE pc' = "load" /\ i' = i + 1
  /\ UNCHANGED <<fragments, prev, l_pw, l_ph, img00_w, img00_h, layer0_w,
                 layer_jpegs_tmp, width_to_layer_map, freed, layers, layer_count,
                 op_vars, src_vars>>

\* setup from the files of a slide of one fragment, then the operations
InitLoad ==
  /\ files \in {<<f>> : f \in LoadFiles}
  /\ fragments = <<[z |-> 0, x |-> 0, y |-> 0]>>
  /\ all_jpegs = <<>>
  /\ pc = "load"
  /\ i = 0
  /\ prev = [z |-> -1, x |-> -1, y |-> -1]
  /\ l_pw = 0 /\ l_ph = 0
  /\ img00_w = 0 /\ img00_h = 0
  /\ layer0_w = 0
  /\ layer_jpegs_tmp = <<>>
  /\ width_to_layer_map = <<>>
  /\ freed = <<>>
  /\ layers = <<>>
  /\ layer_count = 0
  /\ call = NoCall
  /\ dest = <<>>
  /\ jcalls = <<>>
  /\ fault = FALSE
  /\ dims = NoDims
  /\ fpos = 0
  /\ src_mgr = [d \in Decoders |-> NoSrc]
  /\ spc = [d \in Decoders |-> "idle"]
  /\ delivered = [d \in Decoders |-> <<>>]
  /\ serial = TRUE
  /\ frame = [d \in Decoders |-> NoFrame]

\* the largest header values tried: MCUs per row, MCU rows, restart interval
MaxMCUsPerRow == 4
MaxMCURows == 3
MaxRestart == 5

\* a file of m x r MCUs of 8 x 8 pixels with restart interval ri whose image
\* is w x h pixels: an encoder puts a marker after every ri MCUs (none when
\* ri = 0), which makes ceil(m * r / ri) restart intervals
HeaderFile(m, r, ri, w, h) ==
  [ bytes |-> Header \o Entropy([k \in 1..(IF ri = 0 THEN 1 ELSE CeilDiv(m * r, ri)) |-> <<7>>], 1),
    header_length |-> Len(Header), width |-> w, height |-> h,
    MCUs_per_row |-> m, MCU_rows_in_scan |-> r, restart_interval |-> ri ]

\* every header up to the bounds; the last MCU column and row full or one
\* pixel short
HeaderFiles ==
  { HeaderFile(m, r, ri, 8 * m - dw, 8 * r - dh) :
      m \in 1..MaxMCUsPerRow, r \in 1..MaxMCURows, ri \in 0..MaxRestart,
      dw \in 0..1, dh \in 0..1 }

NextLoad == LoadOneJpeg \/ CreateMapStep \/ PublishLayers \/ ReadRegion \/ GetDimensions \/ Return

SpecLoad == InitLoad /\ [][NextLoad]_vars

\* init_one_jpeg on one file of each header
InitHeader ==
  /\ files \in {<<f>> : f \in HeaderFiles}
  /\ fragments = <<[z |-> 0, x |-> 0, y |-> 0]>>
  /\ all_jpegs = <<>>
  /\ pc = "load"
  /\ i = 0
  /\ prev = [z |-> -1, x |-> -1, y |-> -1]
  /\ l_pw = 0 /\ l_ph = 0
  /\ img00_w = 0 /\ img00_h = 0
  /\ layer0_w = 0
  /\ layer_jpegs_tmp = <<>>
  /\ width_to_layer_map = <<>>
  /\ freed = <<>>
  /\ layers = <<>>
  /\ layer_count = 0
  /\ call = NoCall
  /\ dest = <<>>
  /\ jcalls = <<>>
  /\ fault = FALSE
  /\ dims = NoDims
  /\ fpos = 0
  /\ src_mgr = [d \in Decoders |-> NoSrc]
  /\ spc = [d \in Decoders |-> "idle"]
  /\ delivered = [d \in Decoders |-> <<>>]
  /\ serial = TRUE
  /\ frame = [d \in Decoders |-> NoFrame]

NextHeader == LoadOneJpeg

SpecHeader == InitHeader /\ [][NextHeader]_vars

\* decodes, one after the other, on every file that init_one_jpeg returns from
InitAccepted ==
  /\ files \in {<<f>> : f \in {g \in LoadFiles : ~init_one_jpeg(g).crash}}
  /\ all_jpegs = <<init_one_jpeg(files[1])>>
  /\ fragments = <<[z |-> 0, x |-> 0, y |-> 0]>>
  /\ SetupDone
  /\ fpos = 0
  /\ src_mgr = [d \in Decoders |-> NoSrc]
  /\ spc = [d \in Decoders |-> "idle"]
  /\ delivered = [d \in Decoders |-> <<>>]
  /\ serial = TRUE
  /\ frame = [d \in Decoders |-> NoFrame]

SpecAccepted == InitAccepted /\ [][NextSrc]_vars

(***************************************************************************)
(* Properties.                                                             *)
(***************************************************************************)

IsRead == call.op = "read_region"
InRange == call.layer >= 0 /\ call.layer < layer_count

\* the layer of the last read_region, its level index in range
L == layers[call.layer + 1]

src_x == SrcCoord(call.x, L)
src_y == SrcCoord(call.y, L)

\* the pre-scale source extent of the window lies inside the level
ExtentInside ==
  /\ src_x + call.w * L.scale_denom <= L.pixel_w
  /\ src_y + call.h * L.scale_denom <= L.pixel_h

\* the window crosses a file boundary on both axes
CrossesFiles ==
  /\ \E a, b \in 1..Len(jcalls) : jcalls[a].file_x # jcalls[b].file_x
  /\ \E a, b \in 1..Len(jcalls) : jcalls[a].file_y # jcalls[b].file_y

\* C1: a read_region whose level is in range and whose pre-scale source
\* extent lies inside the level leaves no word of dest[0 .. w*h) unwritten,
\* for every scale_denom and every file-grid pitch.
C1_EveryWordWritten ==
  (IsRead /\ InRange /\ ExtentInside)
    => \A idx \in DOMAIN dest : dest[idx] # Untouched

\* the index in all_jpegs of the fragment of layer l supplied with (fx, fy)
FragmentAt(l, fx, fy) ==
  CHOOSE k \in {l.layer_jpegs[n] : n \in 1..Len(l.layer_jpegs)} :
    fragments[k].x = fx /\ fragments[k].y = fy

\* C2: on a level with scale_denom 1 and downsample 1, a window inside the
\* level's dimensions receives in dest[j*w + i] the pixel (u, v) of fragment
\* (fx, fy), where x + i = fx*image00_w + u and y + j = fy*image00_h + v.
C2_StitchedPixels ==
  (/\ IsRead /\ InRange
   /\ L.scale_denom = 1 /\ L.ds_num = L.ds_den
   /\ call.x + call.w <= L.pixel_w /\ call.y + call.h <= L.pixel_h)
    => \A ii \in 0..(call.w - 1), j \in 0..(call.h - 1) :
         dest[j * call.w + ii] =
           << FragmentAt(L, (call.x + ii) \div L.image00_w, (call.y + j) \div L.image00_h),
              (call.x + ii) % L.image00_w, (call.y + j) % L.image00_h, 1 >>

\* a full-size window on such a level that crosses file boundaries on both
\* axes from an origin off the tile boundaries
C2_Witness ==
  /\ IsRead /\ InRange
  /\ L.scale_denom = 1 /\ L.ds_num = L.ds_den
  /\ call.w = MaxW /\ call.h = MaxH
  /\ call.x + call.w <= L.pixel_w /\ call.y + call.h <= L.pixel_h
  /\ CrossesFiles
  /\ \E n \in 1..Len(jcalls) :
       /\ jcalls[n].x % all_jpegs[jcalls[n].jpeg].tile_width # 0
       /\ jcalls[n].y % all_jpegs[jcalls[n].jpeg].tile_height # 0
  /\ \A idx \in DOMAIN dest : dest[idx] # Untouched

\* the rectangles of two calls share no word
Disjoint(a, b) ==
  \/ a.dest_x + a.w <= b.dest_x \/ b.dest_x + b.w <= a.dest_x
  \/ a.dest_y + a.h <= b.dest_y \/ b.dest_y + b.h <= a.dest_y
  \/ a.w = 0 \/ a.h = 0 \/ b.w = 0 \/ b.h = 0

\* C3: in one read_region with its level in range the rectangles handed to
\* the reader are pairwise disjoint and inside the w x h buffer, every
\* reader call stores only into rows 0..dest_h-1 and columns 0..dest_w-1 of
\* its rectangle, and so no word is stored twice and none outside dest.
C3_NoOverlapNoOverflow ==
  (IsRead /\ InRange)
    => LET writes == AllWrites(jcalls, 1, call.w)
       IN /\ \A a, b \in 1..Len(jcalls) : a # b => Disjoint(jcalls[a], jcalls[b])
          /\ \A a \in 1..Len(jcalls) :
               /\ jcalls[a].dest_x >= 0 /\ jcalls[a].dest_y >= 0
               /\ jcalls[a].w >= 0 /\ jcalls[a].h >= 0
               /\ jcalls[a].dest_x + jcalls[a].w <= call.w
               /\ jcalls[a].dest_y + jcalls[a].h <= call.h
               /\ jcalls[a].ncols <= jcalls[a].w
               /\ jcalls[a].nrows <= jcalls[a].h
          /\ \A k \in 1..Len(writes) : writes[k].idx \in 0..(call.w * call.h - 1)
          /\ \A k, m \in 1..Len(writes) : k # m => writes[k].idx # writes[m].idx

\* a read that calls the reader for four files, each storing into dest
C3_Witness ==
  /\ IsRead /\ InRange
  /\ Len(jcalls) >= 4
  /\ \A a \in 1..Len(jcalls) : jcalls[a].ncols > 0 /\ jcalls[a].nrows > 0
  /\ L.scale_denom > 1

\* the published size of the layer of the last read_region
PubW == L.pixel_w \div L.scale_denom
PubH == L.pixel_h \div L.scale_denom

\* the stores of read_region(0, 0, level, W, H), (W, H) the published size
FullWrites == AllWrites(RouterCalls(L, 0, 0, PubW, PubH), 1, PubW)

\* C4 as stated: for every level and every window inside its published
\* dimensions, read_region(x, y, L, w, h) is the crop at (x, y) of the full
\* read of the level: x and y are published (scaled) coordinates.
C4_CropAtPublishedOrigin ==
  (IsRead /\ InRange /\ call.x + call.w <= PubW /\ call.y + call.h <= PubH)
    => LET full == FullWrites
       IN \A ii \in 0..(call.w - 1), j \in 0..(call.h - 1) :
            dest[j * call.w + ii] =
              WordAfter(Untouched, full, (call.y + j) * PubW + call.x + ii)

\* the file-grid pitch of the layer is a multiple of its scale_denom
PitchAligned ==
  /\ L.image00_w % L.scale_denom = 0
  /\ L.image00_h % L.scale_denom = 0

\* C4 as amended: x and y are coordinates of layer 0, divided by the
\* downsample and rounded down to a multiple of scale_denom.  On a level
\* whose pitch is a multiple of scale_denom, a window whose source extent
\* lies inside the level is the crop of the full read at
\* (src_x / scale_denom, src_y / scale_denom).
C4_CropAtLayer0Origin ==
  (IsRead /\ InRange /\ PitchAligned /\ ExtentInside)
    => LET full == FullWrites
       IN \A ii \in 0..(call.w - 1), j \in 0..(call.h - 1) :
            dest[j * call.w + ii] =
              WordAfter(Untouched, full,
                        ((src_y \div L.scale_denom) + j) * PubW
                          + (src_x \div L.scale_denom) + ii)

\* a scaled level below layer 0, an origin that is not its own published
\* origin, a window across four files, every word stored
C4_Witness ==
  /\ IsRead /\ InRange /\ PitchAligned /\ ExtentInside
  /\ L.scale_denom > 1 /\ L.ds_num # L.ds_den
  /\ src_x \div L.scale_denom # call.x /\ src_y \div L.scale_denom # call.y
  /\ src_x > 0 /\ src_y > 0
  /\ CrossesFiles
  /\ call.w = MaxW /\ call.h = MaxH
  /\ \A idx \in DOMAIN dest : dest[idx] # Untouched

\* the source position the router starts from, read off its first call
first_src_x == jcalls[1].file_x * L.image00_w + jcalls[1].x
first_src_y == jcalls[1].file_y * L.image00_h + jcalls[1].y

\* C5 as stated: src_x = floor(x * d / s) * s and src_y = floor(y * d / s) * s,
\* with d = layer0_w / pixel_w.
C5_SrcIsOriginTimesDownsample ==
  (IsRead /\ InRange /\ Len(jcalls) > 0)
    => /\ first_src_x = ((call.x * L.ds_num) \div (L.ds_den * L.scale_denom)) * L.scale_denom
       /\ first_src_y = ((call.y * L.ds_num) \div (L.ds_den * L.scale_denom)) * L.scale_denom

\* C5 as amended: the origin is divided by d, not multiplied:
\* src_x = floor(floor(x / d) / s) * s and src_y = floor(floor(y / d) / s) * s.
C5_SrcIsOriginOverDownsample ==
  (IsRead /\ InRange /\ Len(jcalls) > 0)
    => /\ first_src_x = (((call.x * L.ds_den) \div L.ds_num) \div L.scale_denom) * L.scale_denom
       /\ first_src_y = (((call.y * L.ds_den) \div L.ds_num) \div L.scale_denom) * L.scale_denom

\* a level with d # 1 and s > 1, an origin that both divisions round
C5_Witness ==
  /\ IsRead /\ InRange /\ Len(jcalls) > 0
  /\ L.ds_num # L.ds_den /\ L.scale_denom > 1
  /\ (call.x * L.ds_den) % L.ds_num # 0
  /\ ((call.x * L.ds_den) \div L.ds_num) % L.scale_denom # 0
  /\ first_src_x > 0 /\ first_src_y > 0

\* C6: read_region with a level index outside [0, layer_count) returns with
\* dest unchanged: it stores no word and calls no reader.
C6_OutOfRangeReadDoesNothing ==
  (IsRead /\ ~InRange)
    => /\ \A idx \in DOMAIN dest : dest[idx] = Untouched
       /\ jcalls = <<>>

\* C7: get_dimensions returns (pixel_w / scale_denom, pixel_h / scale_denom)
\* of levels[level] for 0 <= level < layer_count and (0, 0) for every other
\* index, negative ones included.
C7_DimensionsOrZero ==
  (call.op = "get_dimensions")
    => dims = IF InRange THEN <<PubW, PubH>> ELSE <<0, 0>>

\* the window reaches past the level's extent
PastExtent ==
  \/ src_x + call.w * L.scale_denom > L.pixel_w
  \/ src_y + call.h * L.scale_denom > L.pixel_h

\* the in-bounds sub-rectangle of dest
InW == (Min(src_x + call.w * L.scale_denom, L.pixel_w) - src_x) \div L.scale_denom
InH == (Min(src_y + call.h * L.scale_denom, L.pixel_h) - src_y) \div L.scale_denom

\* C8: when the window reaches past the level's extent, every word of dest
\* outside the in-bounds sub-rectangle keeps its value, and no reader call
\* asks a file for a source position outside the level.
C8_PastExtentUntouched ==
  (IsRead /\ InRange /\ PastExtent)
    => /\ \A idx \in DOMAIN dest :
            (idx % call.w >= InW \/ idx \div call.w >= InH) => dest[idx] = Untouched
       /\ \A n \in 1..Len(jcalls) :
            /\ jcalls[n].jpeg # 0
            /\ jcalls[n].file_x * L.image00_w + jcalls[n].x
                 + jcalls[n].w * L.scale_denom <= L.pixel_w
            /\ jcalls[n].file_y * L.image00_h + jcalls[n].y
                 + jcalls[n].h * L.scale_denom <= L.pixel_h

\* a window half inside the level on both axes: some words stored, the rest
\* left as they were
C8_Witness ==
  /\ IsRead /\ InRange /\ PastExtent
  /\ call.w = MaxW /\ call.h = MaxH
  /\ InW > 0 /\ InW < call.w /\ InH > 0 /\ InH < call.h
  /\ L.scale_denom > 1
  /\ \E idx \in DOMAIN dest : dest[idx] # Untouched
  /\ \E idx \in DOMAIN dest : dest[idx] = Untouched

\* the chain of C9: the first fragment is (0,0,0), every later one follows
\* its predecessor by one of the three rules
FollowsRule(p, f) ==
  \/ f.z = p.z + 1 /\ f.x = 0 /\ f.y = 0
  \/ f.z = p.z /\ f.y = p.y + 1 /\ f.x = 0
  \/ f.z = p.z /\ f.y = p.y /\ f.x = p.x + 1

ChainUpTo(n) ==
  /\ n >= 1 => fragments[1] = [z |-> 0, x |-> 0, y |-> 0]
  /\ \A k \in 2..n : FollowsRule(fragments[k - 1], fragments[k])

\* C9: setup accepts a list only if it is such a chain; on every other list
\* it aborts at the first offending fragment, before any level is published.
C9_AcceptsOnlyChains ==
  /\ pc \in {"publish", "ready"} => ChainUpTo(Len(fragments))
  /\ ~ChainUpTo(Len(fragments)) /\ pc = "aborted"
       => /\ ChainUpTo(i) /\ ~ChainUpTo(i + 1)
          /\ layers = <<>> /\ layer_count = 0

\* the fragments of one z form a dense grid: every row holds as many
\* fragments as row 0
Dense(z) ==
  LET fs == {k \in 1..Len(fragments) : fragments[k].z = z}
      row(y) == {k \in fs : fragments[k].y = y}
  IN \A k \in fs : Cardinality(row(fragments[k].y)) = Cardinality(row(0))

\* C10: setup aborts on every list with a grid that is not dense, and in
\* every published level jpegs[] has jpegs_across * jpegs_down entries with
\* jpegs[fy * jpegs_across + fx] the fragment supplied with (x = fx, y = fy).
C10_DenseGridsOnly ==
  /\ pc \in {"publish", "ready"} => \A k \in 1..Len(fragments) : Dense(fragments[k].z)
  /\ pc = "ready" =>
       \A n \in 1..layer_count :
         LET l == layers[n]
         IN /\ Len(l.layer_jpegs) = l.jpegs_across * l.jpegs_down
            /\ \A fx \in 0..(l.jpegs_across - 1), fy \in 0..(l.jpegs_down - 1) :
                 LET fr == fragments[l.layer_jpegs[fy * l.jpegs_across + fx + 1]]
                 IN fr.x = fx /\ fr.y = fy

\* the fragments of depth z, and the layers setup holds (in the hash table
\* while it runs, in the published array afterwards)
FragsOf(z) == {k \in 1..Len(fragments) : fragments[k].z = z}
HeldLayers ==
  {width_to_layer_map[k] : k \in DOMAIN width_to_layer_map}
    \cup {layers[n] : n \in DOMAIN layers}
LayerZ(l) == fragments[l.layer_jpegs[1]].z

\* strict lexicographic order of two fragments, by (z, x, y) and by (z, y, x)
LessZXY(a, b) ==
  \/ a.z < b.z
  \/ a.z = b.z /\ (a.x < b.x \/ (a.x = b.x /\ a.y < b.y))
LessZYX(a, b) ==
  \/ a.z < b.z
  \/ a.z = b.z /\ (a.y < b.y \/ (a.y = b.y /\ a.x < b.x))

\* every depth's grid is dense and the depths are contiguous from 0
DenseContiguous ==
  /\ \A k \in 1..Len(fragments) :
       LET fs == FragsOf(fragments[k].z)
           xs == {fragments[m].x : m \in fs}
           ys == {fragments[m].y : m \in fs}
       IN /\ xs = 0..(Cardinality(xs) - 1)
          /\ ys = 0..(Cardinality(ys) - 1)
          /\ {<<fragments[m].x, fragments[m].y>> : m \in fs} = xs \X ys
  /\ {fragments[k].z : k \in 1..Len(fragments)}
       = 0..(Cardinality({fragments[k].z : k \in 1..Len(fragments)}) - 1)

ContractZXY ==
  /\ DenseContiguous
  /\ \A k \in 1..(Len(fragments) - 1) : LessZXY(fragments[k], fragments[k + 1])
ContractZYX ==
  /\ DenseContiguous
  /\ \A k \in 1..(Len(fragments) - 1) : LessZYX(fragments[k], fragments[k + 1])

\* setup has not aborted, every depth it has flushed has its layers, and
\* every layer it holds has the grid (distinct x) across by (distinct y) down
PassesWithGrids ==
  /\ pc # "aborted"
  /\ (/\ i >= 1 /\ pc \in {"create_map", "publish"}
      /\ (i = Len(fragments) \/ fragments[i + 1].z # fragments[i].z))
       => \E l \in HeldLayers : LayerZ(l) = fragments[i].z
  /\ pc = "ready" => \E l \in HeldLayers : LayerZ(l) = fragments[Len(fragments)].z
  /\ \A l \in HeldLayers :
       /\ l.jpegs_across = Cardinality({fragments[m].x : m \in FragsOf(LayerZ(l))})
       /\ l.jpegs_down = Cardinality({fragments[m].y : m \in FragsOf(LayerZ(l))})

\* C11 as stated: every list in strict (z, x, y) lexicographic order with
\* dense grids and contiguous z passes setup validation and yields levels
\* of (distinct x) across by (distinct y) down.
C11_LexZXYListsPass == ContractZXY => PassesWithGrids

\* C11 as amended: the order setup accepts is (z, y, x), x varying fastest.
\* Every list in strict (z, y, x) order with dense grids and contiguous z
\* passes validation and yields levels of (distinct x) across by
\* (distinct y) down.
C11_LexZYXListsPass == ContractZYX => PassesWithGrids

\* a published level with two columns and two rows
C11_Witness ==
  /\ ContractZYX /\ pc = "ready"
  /\ \E n \in 1..layer_count : layers[n].jpegs_across = 2 /\ layers[n].jpegs_down = 2

\* the input depths, and the pixel size setup accumulates for depth z: the
\* widths of its row 0, the heights of its column 0
Depths == {fragments[k].z : k \in 1..Len(fragments)}

RECURSIVE SumOver(_, _)
SumOver(f, ks) ==
  IF ks = {} THEN 0
  ELSE LET k == CHOOSE m \in ks : TRUE IN f[k] + SumOver(f, ks \ {k})

PixelW(z) ==
  SumOver([k \in 1..Len(fragments) |-> all_jpegs[k].width],
          {k \in FragsOf(z) : fragments[k].y = 0})
PixelH(z) ==
  SumOver([k \in 1..Len(fragments) |-> all_jpegs[k].height],
          {k \in FragsOf(z) : fragments[k].x = 0})

PublishedWidth(l) == l.pixel_w \div l.scale_denom

\* layers[n] is the level of depth z at scale_denom sd
IsLevelOf(l, z, sd) ==
  /\ l.scale_denom = sd
  /\ l.pixel_w = PixelW(z) /\ l.pixel_h = PixelH(z)
  /\ {l.layer_jpegs[m] : m \in 1..Len(l.layer_jpegs)} = FragsOf(z)

ScaleSet == {ScaleDenoms[n] : n \in 1..Len(ScaleDenoms)}

\* C13 as stated: after setup the array holds, for every input z and every
\* s in {1,2,4,8}, a level with that z's pixel_w, pixel_h and jpegs[] and
\* scale_denom s, and so has 4*Z entries.
C13_FourLevelsPerDepth ==
  pc = "ready"
    => /\ \A z \in Depths, sd \in ScaleSet :
            \E n \in 1..layer_count : IsLevelOf(layers[n], z, sd)
       /\ layer_count = 4 * Cardinality(Depths)

\* the published widths setup generates, and the last (z, s) inserted under
\* width w: the deepest z, and for that z the largest s
GeneratedWidths == {PixelW(z) \div sd : z \in Depths, sd \in ScaleSet}

LastWriter(w) ==
  LET ps == {p \in Depths \X ScaleSet : PixelW(p[1]) \div p[2] = w}
  IN CHOOSE p \in ps :
       \A q \in ps : q[1] < p[1] \/ (q[1] = p[1] /\ q[2] <= p[2])

\* C13 as amended: the array holds one level per published width generated,
\* the level of the last (z, s) inserted under that width; a level whose
\* width is generated again by a later (z, s) is replaced, so the array has
\* as many entries as there are distinct widths, at most 4*Z.
C13_OneLevelPerWidth ==
  pc = "ready"
    => /\ layer_count = Cardinality(GeneratedWidths)
       /\ layer_count <= 4 * Cardinality(Depths)
       /\ \A w \in GeneratedWidths :
            \E n \in 1..layer_count :
              /\ PublishedWidth(layers[n]) = w
              /\ IsLevelOf(layers[n], LastWriter(w)[1], LastWriter(w)[2])

\* a slide of two depths with some widths generated twice and some once
C13_Witness ==
  /\ pc = "ready"
  /\ Cardinality(Depths) = 2
  /\ layer_count > 4 /\ layer_count < 8
  /\ \E n \in 1..layer_count : IsLevelOf(layers[n], 0, 1)
  /\ \E n \in 1..layer_count : IsLevelOf(layers[n], 1, 8)

\* C14: after setup the level array is in strictly descending order of
\* published width, and layer_count is the number of distinct published
\* widths generated.
C14_SortedDescending ==
  pc = "ready"
    => /\ \A a, b \in 1..layer_count :
            a < b => PublishedWidth(layers[a]) > PublishedWidth(layers[b])
       /\ Len(layers) = layer_count
       /\ layer_count = Cardinality(GeneratedWidths)

\* an array of more than four levels, from two depths
C14_Witness ==
  /\ pc = "ready"
  /\ layer_count > 4
  /\ Cardinality(Depths) = 2
  /\ PublishedWidth(layers[1]) > PublishedWidth(layers[layer_count])

\* a file has an RSTn marker in its entropy-coded data
HasRST(f) ==
  \E k \in (f.header_length + 1)..(Len(f.bytes) - 1) : f.bytes[k] = FF /\ IsRST(f.bytes[k + 1])

\* setup published levels for read_region
Published == pc = "ready" /\ layer_count > 0

\* C12: setup never publishes a level built from a file whose
\* restart_interval is 0 or whose data holds no RSTn marker.
C12_NoMarkerFileNeverPublished ==
  Published => \A k \in 1..Len(files) : files[k].restart_interval > 0 /\ HasRST(files[k])

\* the file offsets a, a + 1, .., b - 1 in order
Range(a, b) == [k \in 1..(IF b > a THEN b - a ELSE 0) |-> a + k - 1]

\* the offsets of segments n, n + 1, .. of a tile window on a file of flen bytes
RECURSIVE SegmentOffsets(_, _, _)
SegmentOffsets(s, n, flen) ==
  LET count == Len(s.start_positions)
      first == s.topleft + n * s.stride
      last == first + s.width
  IN IF first >= count THEN <<>>
     ELSE Range(s.start_positions[first + 1],
                IF last < count THEN s.start_positions[last + 1] ELSE flen)
            \o SegmentOffsets(s, n + 1, flen)

\* the offsets claimed for the stream of a source on a file of flen bytes
ExpectedOffsets(s, flen) ==
  IF Len(s.start_positions) = 0 THEN Range(0, flen)
  ELSE Range(0, s.start_positions[1]) \o SegmentOffsets(s, 0, flen)

\* the bytes of a delivered stream that came from the file
RECURSIVE FileBytes(_)
FileBytes(stream) ==
  IF stream = <<>> THEN <<>>
  ELSE (IF stream[1][1] = -1 THEN <<>> ELSE <<stream[1]>>) \o FileBytes(Tail(stream))

\* a delivered byte is the byte of the file at its offset, or the second
\* byte of a restart marker of the file, rewritten to a restart marker
AsInFile(e, bytes) ==
  \/ e[2] = bytes[e[1] + 1]
  \/ /\ e[1] >= 1
     /\ bytes[e[1]] = FF /\ IsRST(bytes[e[1] + 1]) /\ IsRST(e[2])

\* C17: the file bytes a decode has been given are, in order and each once,
\* a prefix of the header range followed by the segments of its window (the
\* whole file with an empty table), with the values of the file apart from
\* the second byte of restart markers; the fake EOI only follows all of them.
C17_DeliversHeaderThenSegments ==
  \A d \in Decoders :
    spc[d] # "idle" =>
      LET got == FileBytes(delivered[d])
          exp == ExpectedOffsets(src_mgr[d], Len(TheFile.bytes))
      IN /\ Len(got) <= Len(exp)
         /\ \A k \in 1..Len(got) : got[k][1] = exp[k] /\ AsInFile(got[k], TheFile.bytes)
         /\ \A k \in 1..Len(delivered[d]) :
              delivered[d][k][1] = -1 =>
                /\ Len(got) = Len(exp)
                /\ \A j \in k..Len(delivered[d]) : delivered[d][j][1] = -1

\* a window of two segments that do not touch in the file was delivered whole
\* and followed by the fake EOI
C17_Witness ==
  /\ spc[1] = "run"
  /\ Len(src_mgr[1].start_positions) > 0
  /\ src_mgr[1].topleft = 1 /\ src_mgr[1].width = 1 /\ src_mgr[1].stride = 2
  /\ TheFile.bytes[Len(TheFile.bytes)] = JPEG_EOI
  /\ Len(FileBytes(delivered[1])) = Len(ExpectedOffsets(src_mgr[1], Len(TheFile.bytes)))
  /\ HadEOI(1)

\* byte k of a stream is the second byte of a restart marker
IsMarkerAt(stream, k) == k > 1 /\ stream[k - 1][2] = FF /\ IsRST(stream[k][2])

\* the restart markers among bytes from + 1 .. to of a stream
MarkersIn(stream, from, to) == {k \in (from + 1)..to : IsMarkerAt(stream, k)}

\* C18: with a positions table, the restart markers delivered after the
\* header are numbered 0, 1, .., 7, 0, .. in the order of delivery, and the
\* source has counted every one of them: none passed a fill unrewritten.
C18_MarkersNumberedInOrder ==
  \A d \in Decoders :
    spc[d] # "idle" /\ Len(src_mgr[d].start_positions) > 0 =>
      LET hdr == src_mgr[d].start_positions[1]
          n == Len(delivered[d])
      IN /\ \A k \in MarkersIn(delivered[d], hdr, n) :
              delivered[d][k][2] = RST0 + (Cardinality(MarkersIn(delivered[d], hdr, k - 1)) % 8)
         /\ src_mgr[d].next_restart_marker = Cardinality(MarkersIn(delivered[d], hdr, n)) % 8

\* nine markers were delivered from the second tile on, each with another
\* number than in the file, the ninth as RST0 again
C18_Witness ==
  /\ spc[1] = "run"
  /\ Len(src_mgr[1].start_positions) > 0
  /\ src_mgr[1].topleft = 1
  /\ LET m == MarkersIn(delivered[1], src_mgr[1].start_positions[1], Len(delivered[1]))
     IN /\ Cardinality(m) = 9
        /\ \A k \in m : delivered[1][k][2] # TheFile.bytes[delivered[1][k][1] + 1]
        /\ \E k \in m : /\ delivered[1][k][2] = RST0
                        /\ Cardinality(MarkersIn(delivered[1], src_mgr[1].start_positions[1], k - 1)) = 8

\* the file offsets of the bytes of a stream
OffsetsOf(stream) == {stream[k][1] : k \in 1..Len(stream)} \ {-1}

\* C19: a fill_input_buffer called in any state of a decode, if it returns,
\* leaves at least one byte in the buffer, as many as it delivered, and what
\* it read from the file was not delivered before in this decode.
C19_FillNeverEmpty ==
  \A d \in Decoders :
    spc[d] = "run" =>
      LET f == fill_input_buffer(src_mgr[d], TheFile.bytes, fpos)
      IN f.src.failed = "no" =>
           /\ f.src.bytes_in_buffer >= 1
           /\ f.src.bytes_in_buffer = Len(f.out)
           /\ OffsetsOf(f.out) \cap OffsetsOf(delivered[d]) = {}
           /\ OffsetsOf(f.out) # {} \/ [k \in 1..Len(f.out) |-> f.out[k][2]] = FakeEOI

\* the last byte of the file, an FF, was rewound over by one fill and then
\* delivered alone by the next, and the fill after that gave the fake EOI
C19_Witness ==
  /\ spc[1] = "run"
  /\ Len(src_mgr[1].start_positions) > 0
  /\ TheFile.bytes[Len(TheFile.bytes)] = FF
  /\ HadEOI(1)
  /\ \E k \in 2..Len(delivered[1]) :
       /\ delivered[1][k] = <<Len(TheFile.bytes) - 1, FF>>
       /\ delivered[1][k - 1][1] = Len(TheFile.bytes) - 2

\* the decoder reads n bytes one by one and drops them
RECURSIVE ReadN(_, _, _, _, _)
ReadN(s, bytes, pos, n, out) ==
  IF n <= 0 \/ s.failed # "no" THEN [src |-> s, pos |-> pos, out |-> out]
  ELSE LET r == read_byte(s, bytes, pos)
       IN ReadN(r.src, bytes, r.pos, n - 1, out \o r.out)

\* the last operation on the source was skip_input_data
Skipped == call.op = "skip_input_data"

\* C20: a skip_input_data(N) that returns leaves the source, the file
\* position and the delivered stream as N reads of one byte would, and as
\* they were when N <= 0; it ends the process exactly when the reads would.
C20_SkipIsNReads ==
  [][Skipped' =>
       LET r == ReadN(src_mgr[1], TheFile.bytes, fpos, call'.num_bytes, <<>>)
       IN /\ src_mgr'[1].failed = r.src.failed
          /\ r.src.failed = "no" =>
               /\ src_mgr'[1] = r.src
               /\ fpos' = r.pos
               /\ delivered'[1] = delivered[1] \o r.out
          /\ call'.num_bytes <= 0 =>
               src_mgr' = src_mgr /\ fpos' = fpos /\ delivered' = delivered]_vars

\* a skip of the most bytes went through several fills and over a segment
\* jump: what it had delivered runs on at another place of the file
C20_Witness ==
  /\ Skipped
  /\ spc[1] = "run"
  /\ call.num_bytes = MaxSkip
  /\ src_mgr[1].bytes_in_buffer > 0
  /\ \E k \in (call.from + 1)..(Len(delivered[1]) - 1) :
       /\ delivered[1][k][1] >= 0
       /\ delivered[1][k + 1][1] > delivered[1][k][1] + 1

\* what read_region leaves in dest, and whether it faults, when the read of
\* data->layers + layer has the outcome r
RegionOutcome(r, x, y, w, h) ==
  IF r.crash THEN [dest |-> FreshBuffer(w, h), fault |-> TRUE]
  ELSE LET calls == RouterCalls(r.l, x, y, w, h)
           writes == AllWrites(calls, 1, w)
       IN [dest |-> DestAfter(FreshBuffer(w, h), writes),
           fault |-> \/ ~r.in_bounds
                     \/ \E n \in 1..Len(calls) : calls[n].jpeg = 0
                     \/ \E k \in 1..Len(writes) : writes[k].idx \notin 0..(w * h - 1)]

\* C15: a read_region call has one result: what it left in dest is what
\* every call with the same arguments on this backend leaves there.
C15_SameCallSameResult ==
  IsRead =>
    \A r \in LayerRead(call.layer) :
      RegionOutcome(r, call.x, call.y, call.w, call.h) = [dest |-> dest, fault |-> fault]

\* the same, for calls with a level in range
SameResultInRange == IsRead /\ InRange => C15_SameCallSameResult

\* a source in new memory on the window of s, the handle at offset 0
FreshSource(s) ==
  init_source(_openslide_jpeg_fancy_src(NoSrc, s.start_positions, s.topleft, s.width, s.stride))

\* the stream of the first fills of a source, up to n bytes or more
RECURSIVE Refill(_, _, _, _, _)
Refill(s, bytes, pos, out, n) ==
  IF Len(out) >= n \/ s.failed # "no" THEN out
  ELSE LET f == fill_input_buffer(s, bytes, pos)
       IN Refill(f.src, bytes, f.pos, out \o f.out, n)

\* whatever the decodes before it left in the handle and in the source, a
\* decode is given the stream of a decode on a new handle and a new source
StreamOfFreshDecode ==
  \A d \in Decoders :
    spc[d] # "idle" =>
      delivered[d] = Refill(FreshSource(src_mgr[d]), TheFile.bytes, 0, <<>>, Len(delivered[d]))

\* the second decode on a handle was given its whole stream
SecondDecodeWhole ==
  /\ Requests = 2
  /\ spc[1] = "run"
  /\ Len(src_mgr[1].start_positions) > 0
  /\ HadEOI(1)

\* decode d was handed only bytes of its own stream, in order, and its fills
\* found the handle at or before their stop position
Isolated(d) ==
  /\ src_mgr[d].failed # "assert_pos"
  /\ LET got == FileBytes(delivered[d])
         exp == ExpectedOffsets(src_mgr[d], Len(TheFile.bytes))
     IN /\ Len(got) <= Len(exp)
        /\ \A k \in 1..Len(got) : got[k][1] = exp[k]

\* C16: when the caller runs whole requests on a struct one_jpeg one after
\* the other, every decode is handed its own stream and no fill finds the
\* handle past its stop position.
C16_SerialRequestsIsolated ==
  serial => \A d \in Decoders : spc[d] \notin {"idle", "done"} => Isolated(d)

\* two requests that overlapped: one was handed a byte of the file outside
\* its header and segments, read where the other had left the handle, and a
\* fill of the other found the handle past its stop position
C16_Witness ==
  /\ ~serial
  /\ \E d \in Decoders :
       /\ spc[d] \notin {"idle", "done"}
       /\ OffsetsOf(delivered[d]) \ OffsetsOf(
             [k \in 1..Len(ExpectedOffsets(src_mgr[d], Len(TheFile.bytes))) |->
                <<ExpectedOffsets(src_mgr[d], Len(TheFile.bytes))[k], 0>>]) # {}
  /\ \E d \in Decoders : src_mgr[d].failed = "assert_pos"

\* the (z, scale_denom) pairs whose level is inserted under the width w
Writers(w) == {p \in Depths \X ScaleSet : PixelW(p[1]) \div p[2] = w}

\* the published levels and the released layers that are the level of p
PublishedAs(p) == {n \in 1..layer_count : IsLevelOf(layers[n], p[1], p[2])}
FreedAs(p) == {k \in 1..Len(freed) : IsLevelOf(freed[k], p[1], p[2])}

\* C21: of the (z, scale_denom) pairs that give one published width, the
\* array holds exactly one level of that width, the level of the pair
\* generated last (z ascending, then scale_denom 1, 2, 4, 8); the level of
\* every earlier pair is not published and was released by layer_free once.
C21_LastWriterWins ==
  pc = "ready" =>
    \A w \in GeneratedWidths :
      /\ Cardinality({n \in 1..layer_count : PublishedWidth(layers[n]) = w}) = 1
      /\ \A p \in Writers(w) :
           IF p = LastWriter(w)
           THEN Cardinality(PublishedAs(p)) = 1 /\ FreedAs(p) = {}
           ELSE PublishedAs(p) = {} /\ Cardinality(FreedAs(p)) = 1

\* a slide of two depths where one width is generated twice within a depth
\* and another by both depths
C21_Witness ==
  /\ pc = "ready"
  /\ Cardinality(Depths) = 2
  /\ \E w \in GeneratedWidths : \E p, q \in Writers(w) : p[1] = q[1] /\ p[2] # q[2]
  /\ \E w \in GeneratedWidths : \E p, q \in Writers(w) : p[1] # q[1]
  /\ Len(freed) + layer_count = 8

\* the uniformity invariant of a level: every fragment has the size of
\* image00, except that the rightmost column may be narrower and the bottom
\* row lower
Uniform(l) ==
  \A n \in 1..Len(l.layer_jpegs) :
    LET j == all_jpegs[l.layer_jpegs[n]]
        fx == (n - 1) % l.jpegs_across
        fy == (n - 1) \div l.jpegs_across
    IN /\ IF fx = l.jpegs_across - 1 THEN j.width <= l.image00_w
                                     ELSE j.width = l.image00_w
       /\ IF fy = l.jpegs_down - 1 THEN j.height <= l.image00_h
                                   ELSE j.height = l.image00_h

\* the call reads a cell of the grid, and a rectangle inside that cell's file
InsideItsFile(l, c) ==
  /\ 0 <= c.file_x /\ c.file_x < l.jpegs_across
  /\ 0 <= c.file_y /\ c.file_y < l.jpegs_down
  /\ c.jpeg # 0
  /\ c.jpeg = l.layer_jpegs[c.file_y * l.jpegs_across + c.file_x + 1]
  /\ c.x >= 0 /\ c.y >= 0
  /\ c.x + c.w * c.scale_denom <= all_jpegs[c.jpeg].width
  /\ c.y + c.h * c.scale_denom <= all_jpegs[c.jpeg].height

\* C22: on a level in range whose fragments are uniform, every One-JPEG read
\* that read_region issues for x, y >= 0 targets an existing cell of the file
\* grid and a sub-rectangle inside that file: start_in_file_x + dest_w * s is
\* at most the file's width, start_in_file_y + dest_h * s at most its height.
C22_ReadsInsideFiles ==
  (IsRead /\ InRange /\ call.x >= 0 /\ call.y >= 0 /\ Uniform(L))
    => \A n \in 1..Len(jcalls) : InsideItsFile(L, jcalls[n])

\* a scaled read across four files of a level whose last column and last row
\* are smaller than image00, ending on the right and bottom edges of the
\* smaller corner file
C22_Witness ==
  /\ IsRead /\ InRange /\ Uniform(L)
  /\ CrossesFiles
  /\ \E n \in 1..Len(jcalls) :
       LET c == jcalls[n]
       IN /\ c.jpeg # 0
          /\ all_jpegs[c.jpeg].width < L.image00_w
          /\ all_jpegs[c.jpeg].height < L.image00_h
          /\ c.scale_denom > 1
          /\ c.w > 0 /\ c.h > 0
          /\ c.x + c.w * c.scale_denom = all_jpegs[c.jpeg].width
          /\ c.y + c.h * c.scale_denom = all_jpegs[c.jpeg].height

\* the file of the k-th OneJpeg
FileOf(k) == files[k]

\* C23: for every OneJpeg built by setup from a header with
\* restart_interval > 0, the length of mcu_starts,
\* (MCUs_per_row * MCU_rows_in_scan) / restart_interval, equals
\* (width / tile_width) * (height / tile_height), the stride_in_tiles *
\* img_height_in_tiles of the One-JPEG Reader.
C23_TableLengthIsTileCount ==
  \A k \in 1..Len(all_jpegs) :
    FileOf(k).restart_interval > 0
      => Len(all_jpegs[k].mcu_starts)
           = stride_in_tiles(all_jpegs[k]) * img_height_in_tiles(all_jpegs[k])

\* the same for the headers whose restart_interval divides MCUs_per_row
TableLengthIsTileCount_WholeRows ==
  \A k \in 1..Len(all_jpegs) :
    (FileOf(k).restart_interval > 0
       /\ FileOf(k).MCUs_per_row % FileOf(k).restart_interval = 0)
      => Len(all_jpegs[k].mcu_starts)
           = stride_in_tiles(all_jpegs[k]) * img_height_in_tiles(all_jpegs[k])

\* a header with restart_interval > 0 for which init_one_jpeg divides by zero
HeaderCrashes ==
  /\ pc = "aborted"
  /\ files[1].restart_interval > 0
  /\ init_one_jpeg(files[1]).crash

\* the file offsets immediately after the RSTn markers of a file's
\* entropy-coded data
AfterMarkers(f) ==
  {k \in (f.header_length + 2)..Len(f.bytes) : f.bytes[k - 1] = FF /\ IsRST(f.bytes[k])}

\* p is the offset immediately after the n-th RSTn marker of f
AfterNthMarker(f, n, p) ==
  p \in AfterMarkers(f) /\ Cardinality({q \in AfterMarkers(f) : q <= p}) = n

\* the table is what the claim says of the file: entry 0 the offset of the
\* first entropy-coded byte, entry n the offset after the n-th marker, each
\* entry greater than the one before
TableOfFile(t, f) ==
  /\ t[1] = f.header_length
  /\ \A n \in 2..Len(t) : AfterNthMarker(f, n - 1, t[n]) /\ t[n] > t[n - 1]

\* C24: after the index scan of any file accepted by setup, all N entries
\* of mcu_starts are set and the table is strictly increasing: mcu_starts[0]
\* is the offset of the first entropy-coded byte and mcu_starts[k], for
\* 1 <= k < N, the file offset immediately after the k-th RSTn marker.
C24_TableSetAndIncreasing ==
  Published => \A k \in 1..Len(all_jpegs) : TableOfFile(all_jpegs[k].mcu_starts, FileOf(k))

\* the same for the files that hold at least N - 1 markers
TableSetWhenMarkersSuffice ==
  \A k \in 1..Len(all_jpegs) :
    Cardinality(AfterMarkers(FileOf(k))) >= Len(all_jpegs[k].mcu_starts) - 1
      => TableOfFile(all_jpegs[k].mcu_starts, FileOf(k))

\* C25: the index scan never stores outside mcu_starts[0 .. N-1]: for any
\* byte stream, one with N or more RSTn markers before EOI included, it
\* stops at EOI or when the N-entry table is full, and every store is at an
\* index in [0, N-1].
C25_NoStoreOutsideTable ==
  \A k \in 1..Len(all_jpegs) : ~all_jpegs[k].overflow

\* the same for the files with fewer than N markers
NoStoreOutsideWhenFewMarkers ==
  \A k \in 1..Len(all_jpegs) :
    Cardinality(AfterMarkers(FileOf(k))) < Len(all_jpegs[k].mcu_starts)
      => ~all_jpegs[k].overflow

\* the greatest height_in_tiles read_from_one_jpeg gives a window whose
\* first tile is topleft: img_height_in_tiles - tile_y
MaxHeightInTiles(s) == img_height_in_tiles(TheJpeg) - (s.topleft \div s.stride)

\* C26: in a decode configured by the One-JPEG Reader neither assertion of
\* the Fancy Source fails while the decoder consumes the header and the
\* height_in_tiles segments of its window: at every fill the file position
\* is at most stop_position, and every jump index topleft + i * stride,
\* 0 <= i < height_in_tiles, is within the table.  An assertion that fails
\* fails on the jump after the last tile row, which no window asks for.
C26_AssertionsHold ==
  \A d \in Decoders :
    (spc[d] # "idle" /\ Len(src_mgr[d].start_positions) > 0) =>
      LET s == src_mgr[d]
          count == Len(s.start_positions)
      IN /\ fpos <= s.stop_position
         /\ \A n \in 0..(MaxHeightInTiles(s) - 1) :
              s.topleft + n * s.stride >= 0 /\ s.topleft + n * s.stride < count
         /\ s.failed = "assert" =>
              s.next_start_offset = s.topleft + MaxHeightInTiles(s) * s.stride

\* a window of two rows narrower than the file, read to the end of its
\* second segment: the header, two jumps, and the fill at the last stop
TwoRowWindowRead ==
  /\ spc[1] = "run"
  /\ src_mgr[1].failed = "no"
  /\ Len(src_mgr[1].start_positions) > 0
  /\ MaxHeightInTiles(src_mgr[1]) = 2
  /\ src_mgr[1].width < src_mgr[1].stride
  /\ src_mgr[1].next_start_offset = src_mgr[1].topleft + src_mgr[1].stride
  /\ fpos = src_mgr[1].stop_position
  /\ src_mgr[1].bytes_in_buffer = 0

====
